---- MODULE Spec2Model ----
(***************************************************************************)
(* Model of the request/response coordination core of grok-imagine-mcp:    *)
(* ImageRequestBridge (src/src/imageRequestBridge.ts), driven by the       *)
(* WebSocket server (src/src/webServer.ts) and by the JavaScript timer     *)
(* queue.  One action per method / callback; promises are single-fire.     *)
(***************************************************************************)
EXTENDS Integers, Sequences, FiniteSets, TLC

(* ------------------------------ bounds -------------------------------- *)

\* number of requestImage calls explored
MaxCalls == 2

\* number of WebSocket objects of the worker alive at one time
MaxSockets == 3

\* granularity of the worker's clock, in milliseconds
WorkerTickMs == 2500

\* largest value of the parameter maxRetries of sendMessageWithRetry
MaxRetriesArg == 3

\* granularity of the clock during the wait between two attempts
RetryTickMs == 250

\* granularity of the content script's clock, in milliseconds
PollTickMs == 2500

\* granularity of the model clock, in milliseconds
TickMs == 30000

\* longest prompt explored, in repetitions of a piece of text
MaxRepeat == 17

(* --------------------------- input domains ---------------------------- *)

Conns == {"w1", "w2"}

Prompts == {"cat"}

FolderPaths == {"/out"}

\* mcpServer.ts lines 20-23: a value of the aspectRatio enum other than the default
AspectRatios == {"16:9"}

\* JavaScript values that JSON.parse can put in an envelope field
JsUndefined == [t |-> "undefined"]

JsString(s) == [t |-> "string", s |-> s]

JsArray(a) == [t |-> "array", a |-> a]

\* candidate values of process.env.IMAGE_REQUEST_TIMEOUT
EnvChoices == {JsUndefined, JsString("30000")}

ImageDataChoices ==
    { JsUndefined, JsString(""), JsString("data:image/png;base64,AAAA"),
      JsArray(<<>>), JsArray(<<"data:image/png;base64,AAAA">>) }

ErrorChoices == {JsUndefined, JsString(""), JsString("worker failed")}

RequestIds == 1..MaxCalls

\* with success: false the payload is not looked at: absent, or present
Envelopes ==
    [type : {"imageResponse"}, requestId : RequestIds, success : {TRUE},
     imageData : ImageDataChoices, error : ErrorChoices]
    \cup
    [type : {"imageResponse"}, requestId : RequestIds, success : {FALSE},
     imageData : {JsUndefined, JsString("data:image/png;base64,AAAA")},
     error : ErrorChoices]

\* webServer.ts line 20: what arrives on a socket is text; it is either the
\* serialisation of a JSON value or not JSON at all
JsNull == [t |-> "null"]

NonResponseData ==
    [type : {"ping"}, requestId : RequestIds, success : {TRUE},
     imageData : {JsString("data:image/png;base64,AAAA")}, error : {JsUndefined}]

JSONStringify(value) == [json |-> value]

NotJson == [raw |-> "hello"]

TransportMessages ==
    {NotJson} \cup {JSONStringify(d) : d \in Envelopes \cup NonResponseData \cup {JsNull}}

\* JSON.parse either throws or returns the value the text serialises
JSONParse(message) ==
    IF "json" \in DOMAIN message
    THEN [threw |-> FALSE, value |-> message.json]
    ELSE [threw |-> TRUE, value |-> JsUndefined]

(* ------------------------------ state --------------------------------- *)

VARIABLES
    wsConnections,    \* Set<ServerWebSocket>, in insertion order
    pendingRequests,  \* Map<string, PendingRequest>
    REQUEST_TIMEOUT,  \* readonly field, parsed from the environment
    timers,           \* the runtime's timer table, indexed by handle
    uuids,            \* number of ids crypto.randomUUID has produced
    futures,          \* the promise returned by each requestImage call
    settleCalls,      \* per call: invocations of its resolve / reject
    firstEvent,       \* per call: outcome of the first event addressed to it
    discarded,        \* ids the step just taken found nothing pending for
    sendCalls,        \* the ws.send calls of the step just taken, with their outcome
    wsLog,            \* what websocket.message logged in the step just taken
    clients,          \* webServer.ts line 5: the sockets opened and not closed since
    handlers,         \* mcpServer.ts: per generate_image invocation, its arguments
                      \* and the report it returned, if it has returned
    saveArgs,         \* imageStorage.ts: the arguments of a saveImage call made
                      \* on its own, and the file system's behaviour during it
    saveResult,       \* what that call returned or threw, and the files it wrote
    IMAGE_REQUEST_TIMEOUT,  \* process.env.IMAGE_REQUEST_TIMEOUT
    sockets,          \* background script: readyState of each WebSocket it created
    currentWs,        \* background script: the socket `ws` refers to, 0 for null
    wsStatus,         \* background script: "connected", "disconnected", "connecting"
    keepaliveAlarm,   \* whether the alarm websocket-keepalive exists
    reconnectTimers,  \* time left on each setTimeout(connectWebSocket, 5000)
    serverReachable,  \* whether ws://localhost:3000 accepts connections
    sendMessageFrame, \* background script: the frame of a sendMessageWithRetry call
    pollFrame,        \* content script: the frame of the image polling loop
    page,             \* what the page shows in its image containers
    now,              \* extension: Date.now(), in ms since the worker was loaded
    chromeStorage,    \* chrome.storage.local: the two keys the extension uses
    captureFrames,    \* per requestId received: where its automation stands
    wsSent,           \* the frames the background script has sent, in order
    localStorage,     \* grok.com: the item useImagineModeStore of localStorage
    automationFrames, \* content script: per automateGrokImagine message, the
                      \* frame of handleGrokAutomationRequest and its answer
    tabStatus,        \* the browser: the loading status of each tab
    waitFrames        \* background script: the calls of waitForTabComplete

vars == <<wsConnections, pendingRequests, REQUEST_TIMEOUT, timers, uuids,
          futures, settleCalls, firstEvent, discarded, sendCalls, wsLog, clients,
          handlers, saveArgs, saveResult, IMAGE_REQUEST_TIMEOUT,
          sockets, currentWs, wsStatus, keepaliveAlarm, reconnectTimers, serverReachable,
          sendMessageFrame, pollFrame, page,
          now, chromeStorage, captureFrames, wsSent,
          localStorage, automationFrames, tabStatus, waitFrames>>

\* the variables of the server's modules
serverVars == <<wsConnections, pendingRequests, REQUEST_TIMEOUT, timers, uuids,
                futures, settleCalls, firstEvent, discarded, sendCalls, wsLog,
                clients, handlers, IMAGE_REQUEST_TIMEOUT>>

storageVars == <<saveArgs, saveResult>>

\* the connection state of the background script
connVars == <<sockets, currentWs, wsStatus, keepaliveAlarm, reconnectTimers, serverReachable>>

\* the call of sendMessageWithRetry
retryVars == <<sendMessageFrame>>

\* the polling loop of the content script and the page it reads
pollVars == <<pollFrame, page>>

\* the requests the extension is working on
requestVars == <<now, chromeStorage, captureFrames, wsSent>>

\* the page's settings and the automation requests the content script handles
pageVars == <<localStorage, automationFrames>>

\* the tabs and the calls waiting for them to load
waitVars == <<tabStatus, waitFrames>>

\* the variables no handler of the server writes
outsideServer == <<storageVars, IMAGE_REQUEST_TIMEOUT, connVars, retryVars, pollVars,
                   requestVars, pageVars, waitVars>>

(* ----------------------- JavaScript semantics ------------------------- *)

\* ToBoolean on the values above
Truthy(v) ==
    CASE v.t = "undefined" -> FALSE
      [] v.t = "string"    -> v.s # ""
      [] v.t = "array"     -> TRUE

\* a || b
OrElse(a, b) == IF Truthy(a) THEN a ELSE b

\* the characters of the strings the server handles as opaque values
CharsOf(text) ==
    CASE text = "cat"   -> <<"c", "a", "t">>
      [] text = "/out"  -> <<"/", "o", "u", "t">>
      [] text = ""      -> <<>>
      [] text = "data:image/png;base64,AAAA" ->
            <<"d", "a", "t", "a", ":", "i", "m", "a", "g", "e", "/", "p", "n", "g",
              ";", "b", "a", "s", "e", "6", "4", ",", "A", "A", "A", "A">>
      [] text = "60000" -> <<"6", "0", "0", "0", "0">>
      [] text = "30000" -> <<"3", "0", "0", "0", "0">>
      [] text = "0"     -> <<"0">>
      [] text = "-5"    -> <<"-", "5">>
      [] text = "abc"   -> <<"a", "b", "c">>
      [] text = "30s"   -> <<"3", "0", "s">>
      [] text = " 42"   -> <<" ", "4", "2">>
      [] text = "1.5"   -> <<"1", ".", "5">>

JsChars(v) == IF v.t = "string" THEN JsString(CharsOf(v.s)) ELSE v

\* a JavaScript number: an integer, or NaN
JsNumber(n) == [t |-> "number", n |-> n]

NaN == [t |-> "NaN"]

DecimalDigits == <<"0", "1", "2", "3", "4", "5", "6", "7", "8", "9">>

IsDigit(c) == \E i \in DOMAIN DecimalDigits : DecimalDigits[i] = c

DigitValue(c) == (CHOOSE i \in DOMAIN DecimalDigits : DecimalDigits[i] = c) - 1

\* StrWhiteSpaceChar, among the characters of the inputs
IsStrWhiteSpace(c) == c \in {" ", "\t", "\n"}

RECURSIVE TrimStart(_)
TrimStart(text) ==
    IF text # <<>> /\ IsStrWhiteSpace(Head(text)) THEN TrimStart(Tail(text)) ELSE text

\* the longest run of decimal digits at the start of text
RECURSIVE DigitRun(_)
DigitRun(text) ==
    IF text # <<>> /\ IsDigit(Head(text))
    THEN <<Head(text)>> \o DigitRun(Tail(text))
    ELSE <<>>

RECURSIVE DecimalValue(_)
DecimalValue(digits) ==
    IF digits = <<>> THEN 0
    ELSE 10 * DecimalValue(SubSeq(digits, 1, Len(digits) - 1))
         + DigitValue(digits[Len(digits)])

\* Number.parseInt(string, 10): leading white space is skipped, then a sign,
\* then the longest run of digits is read; NaN when there is no digit
ParseInt(v) ==
    LET trimmed  == TrimStart(CharsOf(v.s))
        negative == trimmed # <<>> /\ Head(trimmed) = "-"
        unsigned == IF trimmed # <<>> /\ Head(trimmed) \in {"-", "+"}
                    THEN Tail(trimmed) ELSE trimmed
        run      == DigitRun(unsigned)
    IN  IF run = <<>> THEN NaN
        ELSE JsNumber(IF negative THEN 0 - DecimalValue(run) ELSE DecimalValue(run))

\* Number.prototype.toString, as text
NumberToString(v) == IF v.t = "NaN" THEN "NaN" ELSE ToString(v.n)

\* a promise: unsettled, or settled once with a value or an error
Unsettled == [kind |-> "unsettled"]

Resolved(result) == [kind |-> "resolved", value |-> result]

Rejected(message) == [kind |-> "rejected", message |-> message]

\* effect of calling resolve/reject of promise c with outcome o
Settle(fs, c, o) ==
    IF fs[c] = Unsettled THEN [fs EXCEPT ![c] = o] ELSE fs

CountSettle(sc, c) == [sc EXCEPT ![c] = @ + 1]

\* history: event with outcome o reaches the calls in cs; only a first one is kept
NoteEvent(fe, cs, o) ==
    [c \in DOMAIN fe |-> IF c \in cs /\ fe[c] = Unsettled THEN o ELSE fe[c]]

\* Map.delete
MapDelete(m, k) == [x \in (DOMAIN m) \ {k} |-> m[x]]

\* Map.set
MapSet(m, k, v) == [x \in (DOMAIN m) \cup {k} |-> IF x = k THEN v ELSE m[x]]

EmptyMap == [x \in {} |-> 0]

\* the members of a Set kept in insertion order
Members(set) == {set[i] : i \in DOMAIN set}

\* Set.add: appended unless already a member
\* variant: the connections are kept in an array
ArrayPush(set, x) == Append(set, x)

SetAdd(set, x) == IF x \in Members(set) THEN set ELSE Append(set, x)

\* Set.delete: the other members keep their order
SetDelete(set, x) == SelectSeq(set, LAMBDA y : y # x)

(* ------------------------------- Init --------------------------------- *)

\* no call made, nothing returned
NoCall == [t |-> "none"]

\* the module state of imageRequestBridge.ts, webServer.ts and mcpServer.ts
\* once they are loaded
ServerInit(envs) ==
    /\ IMAGE_REQUEST_TIMEOUT \in envs
    /\ wsConnections = <<>>
    /\ pendingRequests = EmptyMap
    /\ REQUEST_TIMEOUT = ParseInt(OrElse(IMAGE_REQUEST_TIMEOUT, JsString("60000")))
    /\ timers = <<>>
    /\ uuids = 0
    /\ futures = <<>>
    /\ settleCalls = <<>>
    /\ firstEvent = <<>>
    /\ discarded = {}
    /\ sendCalls = <<>>
    /\ wsLog = <<>>
    /\ clients = {}
    /\ handlers = <<>>

\* no saveImage call is made on its own
StorageIdle ==
    /\ saveArgs = NoCall
    /\ saveResult = NoCall

\* background script once loaded (part_003 lines 283-285 and 647): the
\* script has called connectWebSocket, its first socket is connecting
WorkerLoaded ==
    /\ sockets = [s \in 1..MaxSockets |-> IF s = 1 THEN "CONNECTING" ELSE "none"]
    /\ currentWs = 1
    /\ wsStatus = "connecting"
    /\ reconnectTimers = <<>>

\* no automation is under way: sendMessageWithRetry has not been called
RetryIdle == sendMessageFrame = [pc |-> "idle"]

\* the content script is not polling, the page shows no image
PollIdle ==
    /\ pollFrame = [pc |-> "idle"]
    /\ page = "empty"

\* an item absent from chrome.storage.local
NoItem == [t |-> "none"]

\* the extension has received no request
RequestsIdle ==
    /\ now = 0
    /\ chromeStorage = [grokImaginePendingRequestId |-> NoItem,
                        grokImaginePendingRequest |-> NoItem]
    /\ captureFrames = <<>>
    /\ wsSent = <<>>

\* no page of grok.com has been sent a message
PagesIdle ==
    /\ localStorage = [useImagineModeStore |-> JsNull]
    /\ automationFrames = <<>>

\* no tab is open and nothing waits for one
WaitIdle ==
    /\ tabStatus = <<>>
    /\ waitFrames = <<>>

NoRequests == RequestsIdle /\ PagesIdle /\ WaitIdle

ExtensionInit ==
    /\ WorkerLoaded
    /\ keepaliveAlarm = FALSE
    /\ serverReachable = TRUE
    /\ RetryIdle
    /\ PollIdle
    /\ NoRequests

Init ==
    /\ ServerInit(EnvChoices)
    /\ StorageIdle
    /\ ExtensionInit

(* ----------------------- Worker Connection Pool ------------------------ *)

\* lines 44-49, called by websocket.open (webServer.ts lines 40-47), which
\* adds the socket to clients in the same handler
addWebSocketConnection(ws) ==
    /\ wsConnections' = SetAdd(wsConnections, ws)
    /\ clients' = clients \cup {ws}
    /\ discarded' = {}
    /\ sendCalls' = <<>>
    /\ wsLog' = <<>>
    /\ UNCHANGED outsideServer
    /\ UNCHANGED <<pendingRequests, REQUEST_TIMEOUT, timers, uuids,
                   futures, settleCalls, firstEvent, handlers>>

\* variant: a disconnect that empties the set gives up on what is pending
removeWebSocketConnectionFailing(ws) ==
    /\ wsConnections' = SetDelete(wsConnections, ws)
    /\ clients' = clients \ {ws}
    /\ IF Len(wsConnections') = 0
       THEN /\ pendingRequests' = EmptyMap
            /\ timers' = [h \in DOMAIN timers |->
                            IF timers[h].state = "armed"
                            THEN [timers[h] EXCEPT !.state = "cleared", !.remaining = 0]
                            ELSE timers[h]]
            /\ futures' = [c \in DOMAIN futures |->
                            IF futures[c] = Unsettled
                            THEN Rejected(<<"Worker disconnected">>) ELSE futures[c]]
            /\ settleCalls' = [c \in DOMAIN futures |->
                            IF futures[c] = Unsettled THEN 1 ELSE settleCalls[c]]
            /\ firstEvent' = futures'
       ELSE UNCHANGED <<pendingRequests, timers, futures, settleCalls, firstEvent>>
    /\ discarded' = {}
    /\ sendCalls' = <<>>
    /\ wsLog' = <<>>
    /\ UNCHANGED outsideServer
    /\ UNCHANGED <<REQUEST_TIMEOUT, uuids, handlers>>

\* lines 54-59, called by websocket.close (webServer.ts lines 49-56), which
\* deletes the socket from clients in the same handler
removeWebSocketConnection(ws) ==
    /\ wsConnections' = SetDelete(wsConnections, ws)
    /\ clients' = clients \ {ws}
    /\ discarded' = {}
    /\ sendCalls' = <<>>
    /\ wsLog' = <<>>
    /\ UNCHANGED outsideServer
    /\ UNCHANGED <<pendingRequests, REQUEST_TIMEOUT, timers, uuids,
                   futures, settleCalls, firstEvent, handlers>>

\* variant: requests are admitted without looking at the connection set
hasConnectedClientsAlways == TRUE

\* lines 64-66
hasConnectedClients == Len(wsConnections) > 0

(* ------------------------------ fan-out -------------------------------- *)

\* Date.now(): a number the bridge only copies into the message
DateNow == [t |-> "number"]

\* the object JSON.stringify serialises in sendImageRequest
FanoutMessage(request) ==
    [type |-> "requestImage", requestId |-> request.requestId,
     prompt |-> request.prompt, timestamp |-> request.timestamp]

\* variant: the try/catch encloses the loop, the first throw ends it
SendsUntilThrow(conns, failing) ==
    IF \E i \in DOMAIN conns : conns[i] \in failing
    THEN CHOOSE i \in DOMAIN conns :
            /\ conns[i] \in failing
            /\ \A j \in 1..(i - 1) : conns[j] \notin failing
    ELSE Len(conns)

\* variant: the message goes to one connection only
SendsToFirstOnly(conns, failing) == IF conns = <<>> THEN 0 ELSE 1

\* lines 79-88: how many connections the loop visits, when the sends to the
\* connections in `failing` throw: each throw is caught inside the loop body
SendsAttempted(conns, failing) == Len(conns)

\* lines 71-89: one record per ws.send call of the loop, in iteration order
\* each record also notes whether, when the call is made, the request is in
\* the map `registry` with a timer of the table `armed`
sendImageRequest(request, failing, registry, armed) ==
    [i \in 1..SendsAttempted(wsConnections, failing) |->
        [ws |-> wsConnections[i], message |-> FanoutMessage(request),
         threw |-> (wsConnections[i] \in failing),
         registered |-> /\ request.requestId \in DOMAIN registry
                        /\ registry[request.requestId].timeout \in DOMAIN armed]]

(* ------------------------------ timers --------------------------------- *)

\* the time a timer set with `delay` runs: a delay that is NaN, below 1 or
\* above 2^31 - 1 is taken as 1 millisecond
TimerDelay(delay) ==
    IF delay.t = "NaN" THEN 1
    ELSE IF delay.n < 1 \/ delay.n > 2147483647 THEN 1
    ELSE delay.n

\* setTimeout(callback, delay): a new handle, armed
setTimeout(ts, requestId, caller, delay) ==
    Append(ts, [state |-> "armed", delay |-> delay, remaining |-> TimerDelay(delay),
                requestId |-> requestId, caller |-> caller])

\* clearTimeout(handle): cancels an armed timer, no effect otherwise
clearTimeout(ts, h) ==
    IF ts[h].state = "armed"
    THEN [ts EXCEPT ![h].state = "cleared", ![h].remaining = 0]
    ELSE ts

TimeoutMessage(ms) == <<"Image request timed out after ", NumberToString(ms), "ms">>

NoClientsMessage == <<"No WebSocket clients connected">>

ShutdownMessage == <<"Bridge shutting down">>

(* ---------------------------- requestImage ----------------------------- *)

\* lines 97-99: the call is refused, the async function's promise rejects
requestImageNoClients(prompt, folderPath) ==
    /\ ~hasConnectedClients
    /\ futures' = Append(futures, Rejected(NoClientsMessage))
    /\ settleCalls' = Append(settleCalls, 1)
    /\ firstEvent' = Append(firstEvent, Rejected(NoClientsMessage))
    /\ discarded' = {}
    /\ sendCalls' = <<>>
    /\ wsLog' = <<>>
    /\ UNCHANGED outsideServer
    /\ UNCHANGED <<wsConnections, clients, pendingRequests, REQUEST_TIMEOUT, timers, uuids>>

\* variant: the id is derived from the size of the map
IdFromPendingCount(n) == Cardinality(DOMAIN pendingRequests) + 1

\* line 102: crypto.randomUUID() returns a version 4 UUID, taken here as a
\* value it has not returned before; n is the number of ids drawn so far
randomUUID(n) == n + 1

\* variant: the fan-out runs first, the timer and the entry come after it
AtFanoutEarly(before, after) == before

\* lines 108-125: what the fan-out of line 125 finds, given the value a
\* field had when requestImage was entered and the value it has at its end
AtFanout(before, after) == after

\* lines 101-135: id, timer, map entry, fan-out
requestImageAccepted(prompt, folderPath, failing) ==
    LET caller    == Len(futures) + 1
        requestId == randomUUID(uuids)
        handle    == Len(timers) + 1
        request   == [requestId |-> requestId, prompt |-> prompt,
                      folderPath |-> folderPath, timestamp |-> DateNow]
    IN  /\ hasConnectedClients
        /\ uuids' = uuids + 1
        /\ timers' = setTimeout(timers, requestId, caller, REQUEST_TIMEOUT)
        /\ pendingRequests' =
              MapSet(pendingRequests, requestId,
                     [caller |-> caller, timeout |-> handle,
                      prompt |-> prompt, folderPath |-> folderPath])
        /\ sendCalls' = sendImageRequest(request, failing,
                                         AtFanout(pendingRequests, pendingRequests'),
                                         AtFanout(timers, timers'))
        /\ futures' = Append(futures, Unsettled)
        /\ settleCalls' = Append(settleCalls, 0)
        /\ firstEvent' = Append(firstEvent, Unsettled)
        /\ discarded' = {}
        /\ wsLog' = <<>>
        /\ UNCHANGED outsideServer
        /\ UNCHANGED <<wsConnections, clients, REQUEST_TIMEOUT>>

\* lines 95-136: the method; what its caller does in the same step is the
\* caller's (generate_image below)
requestImage(prompt, folderPath, failing) ==
    /\ Len(futures) < MaxCalls
    /\ \/ requestImageNoClients(prompt, folderPath)
       \/ requestImageAccepted(prompt, folderPath, failing)

(* ------------------------- handleImageResponse ------------------------- *)

\* variant: an envelope with an unknown id is matched to whatever is pending
LookupAnyPending(m, id) == IF id \in DOMAIN m THEN {id} ELSE DOMAIN m

\* line 147: this.pendingRequests.get(response.requestId); the key found, if any
LookupPending(m, id) == IF id \in DOMAIN m THEN {id} ELSE {}

\* line 163: response.success && response.imageData
IsSuccess(response) == response.success /\ Truthy(response.imageData)

\* lines 163-173: the value handed to pending.resolve
ResponseResult(response) ==
    IF IsSuccess(response)
    THEN [success |-> TRUE, imageData |-> response.imageData]
    ELSE [success |-> FALSE,
          error |-> OrElse(response.error, JsString("Unknown error occurred"))]

\* variant: the response handler cancels every armed timer
TimersAllClearedAfterResponse(ts, pending) ==
    [h \in DOMAIN ts |-> clearTimeout(ts, h)[h]]

\* variant: the response handler leaves the timer armed
TimersKeptAfterResponse(ts, pending) == ts

\* line 157: the timer table after the response handler dealt with `pending`
TimersAfterResponse(ts, pending) == clearTimeout(ts, pending.timeout)

\* variant: the response handler leaves the entry in the map
PendingKeptAfterResponse(m, id) == m

\* line 160: the map after the response handler dealt with key `id`
PendingAfterResponse(m, id) == MapDelete(m, id)

\* the calls whose requestImage generated this id (lines 102, 108-113)
CallersOf(id) == {timers[h].caller : h \in {x \in DOMAIN timers : timers[x].requestId = id}}

\* lines 142-174
handleImageResponse(response) ==
    LET id    == response.requestId
        found == LookupPending(pendingRequests, id)
    IN  /\ firstEvent' = NoteEvent(firstEvent, CallersOf(id),
                                    Resolved(ResponseResult(response)))
        /\ IF found = {}
           THEN /\ discarded' = {id}
                /\ UNCHANGED <<pendingRequests, timers, futures, settleCalls>>
           ELSE \E key \in found :
                LET pending == pendingRequests[key]
                IN  /\ timers' = TimersAfterResponse(timers, pending)
                    /\ pendingRequests' = PendingAfterResponse(pendingRequests, key)
                    /\ futures' = Settle(futures, pending.caller,
                                         Resolved(ResponseResult(response)))
                    /\ settleCalls' = CountSettle(settleCalls, pending.caller)
                    /\ discarded' = {}
        /\ sendCalls' = <<>>
        /\ UNCHANGED <<wsConnections, clients, handlers, REQUEST_TIMEOUT, uuids>>

(* ------------------------- webServer.ts: message ----------------------- *)

\* variant: every parsed message is handed to the bridge
IsAnyMessage(data) == TRUE

\* webServer.ts line 26
IsImageResponse(data) == data.type = "imageResponse"

\* webServer.ts lines 21-23: reading data.type of null throws a TypeError
ReadTypeThrows(data) == data = JsNull

\* webServer.ts lines 17-38, message(ws, message): the handler never reads ws,
\* so the sender is not an input; a message arrives only over an open socket,
\* and the sockets open are those between websocket.open and websocket.close
onWebsocketMessage(text) ==
    LET parsed == JSONParse(text)
        data   == parsed.value
    IN  /\ wsConnections # <<>>
        /\ IF parsed.threw \/ ReadTypeThrows(data)
           THEN /\ wsLog' = <<"Failed to parse message", "Raw message">>
                /\ discarded' = {}
                /\ sendCalls' = <<>>
                /\ UNCHANGED <<wsConnections, clients, handlers, pendingRequests, REQUEST_TIMEOUT,
                               timers, uuids, futures, settleCalls, firstEvent>>
           ELSE IF IsImageResponse(data)
           THEN /\ handleImageResponse(data)
                /\ wsLog' = <<"Received message type">>
           ELSE /\ wsLog' = <<"Received message type", "Unknown message type">>
                /\ discarded' = {}
                /\ sendCalls' = <<>>
                /\ UNCHANGED <<wsConnections, clients, handlers, pendingRequests, REQUEST_TIMEOUT,
                               timers, uuids, futures, settleCalls, firstEvent>>

\* the handler as a step of the server: nothing outside the server changes
websocketMessage(text) == onWebsocketMessage(text) /\ UNCHANGED outsideServer

(* --------------------------- timeout callback -------------------------- *)

\* variant: the timeout callback leaves the entry in the map
PendingKeptAfterTimeout(m, requestId) == m

\* line 109: the map after the timeout callback of `requestId` ran
PendingAfterTimeout(m, requestId) == MapDelete(m, requestId)

\* variant: the message quotes the default instead of the configured duration
TimeoutErrorDefault(ms) == Rejected(TimeoutMessage(JsNumber(60000)))

\* lines 110-112: the error handed to reject
TimeoutError(ms) == Rejected(TimeoutMessage(ms))

\* lines 108-113: the runtime runs the callback of an armed, expired timer
TimeoutFire(h) ==
    /\ h \in DOMAIN timers
    /\ timers[h].state = "armed"
    /\ timers[h].remaining = 0
    /\ timers' = [timers EXCEPT ![h].state = "fired"]
    /\ pendingRequests' = PendingAfterTimeout(pendingRequests, timers[h].requestId)
    /\ futures' = Settle(futures, timers[h].caller, TimeoutError(REQUEST_TIMEOUT))
    /\ settleCalls' = CountSettle(settleCalls, timers[h].caller)
    /\ firstEvent' = NoteEvent(firstEvent, {timers[h].caller},
                                TimeoutError(REQUEST_TIMEOUT))
    /\ discarded' = {}
    /\ sendCalls' = <<>>
    /\ wsLog' = <<>>
    /\ UNCHANGED outsideServer
    /\ UNCHANGED <<wsConnections, clients, handlers, REQUEST_TIMEOUT, uuids>>

\* the timer table after ms milliseconds: armed timers count down to 0
Elapsed(ts, ms) ==
    [h \in DOMAIN ts |->
        IF ts[h].state = "armed"
        THEN [ts[h] EXCEPT !.remaining = IF @ > ms THEN @ - ms ELSE 0]
        ELSE ts[h]]

\* passage of TickMs milliseconds while some timer is still counting down
Tick ==
    /\ \E h \in DOMAIN timers : timers[h].state = "armed" /\ timers[h].remaining > 0
    /\ timers' = Elapsed(timers, TickMs)
    /\ discarded' = {}
    /\ sendCalls' = <<>>
    /\ wsLog' = <<>>
    /\ UNCHANGED outsideServer
    /\ UNCHANGED <<wsConnections, clients, handlers, pendingRequests, REQUEST_TIMEOUT, uuids,
                   futures, settleCalls, firstEvent>>

(* ------------------------- clearPendingRequests ------------------------ *)

\* variant: the shutdown loop does not cancel the timers
ShutdownCancelsNone(m) == {}

\* line 188, over all entries: the timers the shutdown loop cancels
ShutdownCancels(m) == {m[id].timeout : id \in DOMAIN m}

\* variant: the shutdown loop drops the entries without rejecting them
ShutdownRejectsNone(m) == {}

\* variant: every iteration of the shutdown loop rejects the first entry's caller
ShutdownRejectsFirst(m) ==
    IF DOMAIN m = {} THEN {}
    ELSE {m[CHOOSE id \in DOMAIN m : \A other \in DOMAIN m : id <= other].caller}

\* line 189, over all entries: the callers the shutdown loop rejects
ShutdownRejects(m) == {m[id].caller : id \in DOMAIN m}

\* line 191: this.pendingRequests.clear()
PendingAfterShutdown(m) == EmptyMap

\* lines 186-192
clearPendingRequests ==
    /\ timers' = [h \in DOMAIN timers |->
                    IF h \in ShutdownCancels(pendingRequests)
                    THEN clearTimeout(timers, h)[h] ELSE timers[h]]
    /\ futures' = [c \in DOMAIN futures |->
                    IF c \in ShutdownRejects(pendingRequests)
                    THEN Settle(futures, c, Rejected(ShutdownMessage))[c]
                    ELSE futures[c]]
    /\ settleCalls' = [c \in DOMAIN settleCalls |->
                    IF c \in ShutdownRejects(pendingRequests)
                    THEN settleCalls[c] + 1 ELSE settleCalls[c]]
    /\ pendingRequests' = PendingAfterShutdown(pendingRequests)
    /\ firstEvent' = NoteEvent(firstEvent, DOMAIN firstEvent, Rejected(ShutdownMessage))
    /\ discarded' = {}
    /\ sendCalls' = <<>>
    /\ wsLog' = <<>>
    /\ UNCHANGED outsideServer
    /\ UNCHANGED <<wsConnections, clients, handlers, REQUEST_TIMEOUT, uuids>>

\* lines 179-181
getPendingRequestCount == Cardinality(DOMAIN pendingRequests)

(* ----------------------------- imageStorage.ts ------------------------- *)

\* a string the storage code inspects is a sequence of one-character strings
UpperCase ==
    <<"A", "B", "C", "D", "E", "F", "G", "H", "I", "J", "K", "L", "M",
      "N", "O", "P", "Q", "R", "S", "T", "U", "V", "W", "X", "Y", "Z">>

LowerCase ==
    <<"a", "b", "c", "d", "e", "f", "g", "h", "i", "j", "k", "l", "m",
      "n", "o", "p", "q", "r", "s", "t", "u", "v", "w", "x", "y", "z">>

Digits == {"0", "1", "2", "3", "4", "5", "6", "7", "8", "9"}

Range(seq) == {seq[i] : i \in DOMAIN seq}

\* String.prototype.toLowerCase, character by character
LowerOf(c) ==
    IF c \in Range(UpperCase)
    THEN LowerCase[CHOOSE i \in DOMAIN UpperCase : UpperCase[i] = c]
    ELSE c

ToLowerCase(text) == [i \in DOMAIN text |-> LowerOf(text[i])]

\* the characters the class \s matches, among those of the inputs
IsWhitespace(c) == c \in {" ", "\t", "\n"}

\* variant: every whitespace character becomes an underscore of its own
ReplaceEachWhitespace(text) ==
    [i \in DOMAIN text |-> IF IsWhitespace(text[i]) THEN "_" ELSE text[i]]

\* line 20: .replace(/\s+/g, "_"): a match starts at a whitespace character
\* that follows none and takes the whole run; the first character of the
\* run becomes the underscore and the others go ("" marks them)
ReplaceWhitespaceRuns(text) ==
    LET replaced == [i \in DOMAIN text |->
                        IF ~IsWhitespace(text[i]) THEN text[i]
                        ELSE IF i > 1 /\ IsWhitespace(text[i - 1]) THEN ""
                        ELSE "_"]
    IN  SelectSeq(replaced, LAMBDA c : c # "")

\* line 21: .replace(/[^a-z0-9_-]/g, "")
IsFilenameChar(c) == c \in Range(LowerCase) \cup Digits \cup {"_", "-"}

RemoveSpecial(text) == SelectSeq(text, IsFilenameChar)

\* String.prototype.substring(0, end)
Substring(text, end) == SubSeq(text, 1, IF Len(text) < end THEN Len(text) ELSE end)

\* lines 17-23
sanitizeFilename(text) ==
    Substring(RemoveSpecial(ReplaceWhitespaceRuns(ToLowerCase(text))), 50)

StartsWith(text, prefix) ==
    /\ Len(text) >= Len(prefix)
    /\ SubSeq(text, 1, Len(prefix)) = prefix

DataImagePrefix == <<"d", "a", "t", "a", ":", "i", "m", "a", "g", "e", "/">>

Base64Marker == <<";", "b", "a", "s", "e", "6", "4", ",">>

IsLetter(c) == c \in Range(LowerCase) \cup Range(UpperCase)

\* the longest run of letters at the start of text: the group ([a-z]+) under
\* the flag i; what follows the group in the pattern is not a letter, so no
\* shorter run can match
RECURSIVE LetterRun(_)
LetterRun(text) ==
    IF text # <<>> /\ IsLetter(Head(text))
    THEN <<Head(text)>> \o LetterRun(Tail(text))
    ELSE <<>>

\* the characters . does not match
IsLineTerminator(c) == c \in {"\n", "\r"}

Drop(text, n) == SubSeq(text, n + 1, Len(text))

\* variant: the data segment may be empty (.* in place of .+)
MatchDataUrlEmptyData(dataUrl) ==
    LET afterPrefix == Drop(dataUrl, Len(DataImagePrefix))
        format      == LetterRun(afterPrefix)
        afterFormat == Drop(afterPrefix, Len(format))
        base64Data  == Drop(afterFormat, Len(Base64Marker))
    IN  IF /\ format # <<>>
           /\ StartsWith(ToLowerCase(afterFormat), Base64Marker)
           /\ \A i \in DOMAIN base64Data : ~IsLineTerminator(base64Data[i])
        THEN [matched |-> TRUE, format |-> format, base64Data |-> base64Data]
        ELSE [matched |-> FALSE]

\* line 39: dataUrl.match(/^data:image\/([a-z]+);base64,(.+)$/i), for a text
\* that starts with DataImagePrefix
MatchDataUrl(dataUrl) ==
    LET afterPrefix == Drop(dataUrl, Len(DataImagePrefix))
        format      == LetterRun(afterPrefix)
        afterFormat == Drop(afterPrefix, Len(format))
        base64Data  == Drop(afterFormat, Len(Base64Marker))
    IN  IF /\ format # <<>>
           /\ StartsWith(ToLowerCase(afterFormat), Base64Marker)
           /\ base64Data # <<>>
           /\ \A i \in DOMAIN base64Data : ~IsLineTerminator(base64Data[i])
        THEN [matched |-> TRUE, format |-> format, base64Data |-> base64Data]
        ELSE [matched |-> FALSE]

\* a thrown Error with this message
Threw(message) == [threw |-> TRUE, message |-> message]

\* lines 29-55; dataUrl is a JavaScript value, a string where the caller
\* kept to the declared type
parseDataUrl(dataUrl) ==
    IF dataUrl.t = "undefined"
    THEN Threw(<<"Cannot read properties of undefined (reading 'startsWith')">>)
    ELSE IF dataUrl.t # "string"
    THEN Threw(<<"dataUrl.startsWith is not a function">>)
    ELSE IF ~StartsWith(dataUrl.s, DataImagePrefix)
    THEN Threw(<<"Invalid data URL: must start with 'data:image/'">>)
    ELSE IF ~MatchDataUrl(dataUrl.s).matched
    THEN Threw(<<"Invalid data URL format: expected 'data:image/{format};base64,{data}'">>)
    ELSE [threw |-> FALSE, format |-> MatchDataUrl(dataUrl.s).format,
          data |-> MatchDataUrl(dataUrl.s).base64Data]

\* outcomes of the file system calls of saveImage: both writes succeed, the
\* write to the project root fails, the write to the user folder fails
FsOutcomes == {"ok", "rootFails", "userFolderFails"}

\* line 88: Date.now(), as one piece of the file name
Timestamp == "1700000000000"

\* line 92: process.cwd()
ProjectRoot == <<"/", "s", "r", "v">>

\* path.join of a directory and a file name
Join(dir, filename) == dir \o <<"/">> \o filename

\* lines 86-89: the name of the file saveImage writes
Filename(prompt, format) ==
    LET sanitized       == sanitizeFilename(prompt)
        sanitizedPrompt == IF sanitized # <<>> THEN sanitized
                           ELSE <<"i", "m", "a", "g", "e">>
    IN  sanitizedPrompt \o <<"_", Timestamp, ".">> \o format

\* lines 98-123: the files on disk when saveImage is left
Written(rootPath, userPath, fs) ==
    CASE fs = "ok"              -> {rootPath, userPath}
      [] fs = "rootFails"       -> {}
      [] fs = "userFolderFails" -> {rootPath}

\* lines 73-126: what the call returns or throws, and the files it wrote
saveImage(options, fs) ==
    IF ~StartsWith(options.folderPath, <<"/">>)
    THEN [threw |-> TRUE, written |-> {},
          message |-> <<"Folder path must be absolute: ">> \o options.folderPath]
    ELSE LET parsed == parseDataUrl(options.base64DataUrl)
         IN  IF parsed.threw
             THEN [threw |-> TRUE, written |-> {}, message |-> parsed.message]
             ELSE LET filename == Filename(options.prompt, parsed.format)
                      rootPath == Join(ProjectRoot, filename)
                      userPath == Join(options.folderPath, filename)
                      written  == Written(rootPath, userPath, fs)
                  IN  CASE fs = "rootFails" ->
                             [threw |-> TRUE, written |-> written,
                              message |-> <<"Failed to save image to project root: ",
                                            "EACCES">>]
                        [] fs = "userFolderFails" ->
                             [threw |-> TRUE, written |-> written,
                              message |-> <<"Saved to project root but failed to save to ">>
                                          \o options.folderPath \o <<": ", "EACCES">>]
                        [] fs = "ok" ->
                             [threw |-> FALSE, written |-> written,
                              paths |-> <<rootPath, userPath>>]

(* ---------------------- mcpServer.ts: generate_image -------------------- *)

\* the report slot of an invocation that has not returned
NoReport == [t |-> "none"]

\* mcpServer.ts lines 26-37: the handler starts and calls requestImage; the
\* method (imageRequestBridge.ts line 95) declares two parameters, so the
\* third argument is dropped by the call
generate_image(prompt, folderPath, aspectRatio, failing) ==
    /\ requestImage(prompt, folderPath, failing)
    /\ handlers' = Append(handlers,
                          [prompt |-> prompt, folderPath |-> folderPath,
                           aspectRatio |-> aspectRatio, report |-> NoReport])

\* a value inside a template literal, as the pieces of the resulting text
TemplateString(v) ==
    CASE v.t = "string"    -> <<v.s>>
      [] v.t = "undefined" -> <<"undefined">>
      [] v.t = "array"     -> v.a

\* mcpServer.ts lines 41-49 and 74-82
ErrorReport(text) ==
    [content |-> <<[type |-> "text", text |-> <<"Error: ">> \o text]>>,
     isError |-> TRUE]

\* Array.prototype.join("\n")
RECURSIVE JoinLines(_)
JoinLines(lines) ==
    IF lines = <<>> THEN <<>>
    ELSE IF Len(lines) = 1 THEN lines[1]
    ELSE lines[1] \o <<"\n">> \o JoinLines(Tail(lines))

\* mcpServer.ts lines 62-69
SuccessReport(filePaths) ==
    [content |-> <<[type |-> "text",
                    text |-> <<"Image saved to:", "\n">>
                             \o JoinLines([i \in DOMAIN filePaths |->
                                              <<"- ">> \o filePaths[i]])]>>]

\* variant: a failure result is reported with a text of the front-end's own
FailureBranchGeneric(result) == ErrorReport(<<"Image generation failed">>)

\* mcpServer.ts lines 39-50: the result says success: false
FailureBranch(result) == ErrorReport(TemplateString(result.error))

\* variant: the catch block passes the error on instead of returning
CatchBranchRethrows(message) == [t |-> "thrown", message |-> message]

\* mcpServer.ts lines 70-83: error is an Error, its message is reported
CatchBranch(message) == ErrorReport(message)

\* lines 52-57: the saveImage call of the handler, for each payload a result
\* can carry and each outcome of the file system
SavedByHandler ==
    [d \in ImageDataChoices, f \in FolderPaths, p \in Prompts, fs \in FsOutcomes |->
        saveImage([base64DataUrl |-> JsChars(d),
                   folderPath |-> CharsOf(f),
                   prompt |-> CharsOf(p)], fs)]

\* mcpServer.ts lines 31-83, from the await on: what the handler returns for
\* the settled promise `outcome`
HandlerReport(outcome, frame, fs) ==
    IF outcome.kind = "rejected"
    THEN CatchBranch(outcome.message)
    ELSE IF ~outcome.value.success
    THEN FailureBranch(outcome.value)
    ELSE LET saved == SavedByHandler[outcome.value.imageData, frame.folderPath,
                                     frame.prompt, fs]
         IN  IF saved.threw
             THEN CatchBranch(saved.message)
             ELSE SuccessReport(saved.paths)

\* mcpServer.ts lines 32-83: the handler of invocation c resumes after its
\* await and returns
generateImageReturn(c, fs) ==
    /\ c \in DOMAIN handlers
    /\ handlers[c].report = NoReport
    /\ futures[c] # Unsettled
    /\ handlers' = [handlers EXCEPT ![c].report = HandlerReport(futures[c], handlers[c], fs)]
    /\ discarded' = {}
    /\ sendCalls' = <<>>
    /\ wsLog' = <<>>
    /\ UNCHANGED outsideServer
    /\ UNCHANGED <<wsConnections, clients, pendingRequests, REQUEST_TIMEOUT, timers,
                   uuids, futures, settleCalls, firstEvent>>

(* ------------------------------- system -------------------------------- *)

Next ==
    \/ \E ws \in Conns : addWebSocketConnection(ws)
    \/ \E ws \in Conns : removeWebSocketConnection(ws)
    \/ \E p \in Prompts, f \in FolderPaths, a \in AspectRatios,
          failing \in SUBSET Members(wsConnections) :
          generate_image(p, f, a, failing)
    \/ \E m \in TransportMessages : websocketMessage(m)
    \/ \E h \in DOMAIN timers : TimeoutFire(h)
    \/ Tick
    \/ clearPendingRequests

Spec == Init /\ [][Next]_vars

\* the front-end with the registry: one worker, the envelopes a worker sends
ToolConns == {"w1"}

ToolEnvelopes ==
    [type : {"imageResponse"}, requestId : RequestIds, success : {TRUE},
     imageData : {JsString("data:image/png;base64,AAAA"),
                  JsArray(<<"data:image/png;base64,AAAA">>)},
     error : {JsUndefined}]
    \cup
    [type : {"imageResponse"}, requestId : RequestIds, success : {FALSE},
     imageData : {JsUndefined}, error : {JsUndefined, JsString("worker failed")}]

ToolNext ==
    \/ \E ws \in ToolConns : addWebSocketConnection(ws)
    \/ \E ws \in ToolConns : removeWebSocketConnection(ws)
    \/ \E p \in Prompts, f \in FolderPaths, a \in AspectRatios,
          failing \in SUBSET Members(wsConnections) :
          generate_image(p, f, a, failing)
    \/ \E d \in ToolEnvelopes : websocketMessage(JSONStringify(d))
    \/ \E h \in DOMAIN timers : TimeoutFire(h)
    \/ Tick
    \/ clearPendingRequests
    \/ \E c \in DOMAIN handlers, fs \in FsOutcomes : generateImageReturn(c, fs)

ToolSpec == Init /\ [][ToolNext]_vars

(* ------------------ the bridge under any environment ------------------ *)

\* values of process.env.IMAGE_REQUEST_TIMEOUT: unset, empty, and texts an
\* operator may put there
ConfigEnvs ==
    { JsUndefined, JsString(""), JsString("30000"), JsString("0"), JsString("-5"),
      JsString("abc"), JsString("30s"), JsString(" 42"), JsString("1.5") }

ConfigInit ==
    /\ ServerInit(ConfigEnvs)
    /\ StorageIdle
    /\ ExtensionInit

ConfigNext ==
    \/ \E ws \in ToolConns : addWebSocketConnection(ws)
    \/ \E p \in Prompts, f \in FolderPaths, a \in AspectRatios,
          failing \in SUBSET Members(wsConnections) :
          generate_image(p, f, a, failing)
    \/ \E h \in DOMAIN timers : TimeoutFire(h)
    \/ Tick

ConfigSpec == ConfigInit /\ [][ConfigNext]_vars

(* ------------------------- saveImage on its own ------------------------- *)

RECURSIVE Repeat(_, _)
Repeat(unit, n) == IF n = 0 THEN <<>> ELSE unit \o Repeat(unit, n - 1)

\* pieces of prompt text: letters of both cases, runs of whitespace,
\* punctuation, a path, and the characters a file name keeps
PromptUnits ==
    { <<"C", "a", "t">>, <<"A", " ", "\t", "b", "!", "-">>, <<" ", "!", " ">>,
      <<".", ".", "/">>, <<"x", "_", "-", "9">>, <<" ">> }

StoragePrompts == {Repeat(u, n) : u \in PromptUnits, n \in 0..MaxRepeat}

\* payloads put together from a prefix, a format, a marker and a data segment
PayloadPrefixes == {DataImagePrefix, <<"d", "a", "t", "a", ":">>, <<>>}

PayloadFormats == {<<"p", "n", "g">>, <<"J", "P", "E", "G">>, <<>>, <<"x", "-", "y">>}

PayloadMarkers == {Base64Marker, <<";", "b", "a", "s", "e", "6", "4">>, <<",">>}

PayloadData == {<<>>, <<"A", "A", "=", "=">>, <<"A", "\n", "B">>}

StoragePayloads ==
    {JsString(pre \o fmt \o mark \o data) :
        pre \in PayloadPrefixes, fmt \in PayloadFormats,
        mark \in PayloadMarkers, data \in PayloadData}
    \cup {JsArray(<<DataImagePrefix \o <<"p", "n", "g">> \o Base64Marker \o <<"A">>,
                    DataImagePrefix \o <<"p", "n", "g">> \o Base64Marker \o <<"B">>,
                    DataImagePrefix \o <<"p", "n", "g">> \o Base64Marker \o <<"C">>>>)}

ValidPayload == JsString(DataImagePrefix \o <<"p", "n", "g">> \o Base64Marker \o <<"A", "A", "=", "=">>)

StorageFolders == {<<"/", "o", "u", "t">>, <<"o", "u", "t">>}

\* the calls of saveImage: every prompt with a valid payload, every payload
\* with one prompt, under every folder and every outcome of the file system
SaveCalls ==
    {[options |-> [base64DataUrl |-> d, folderPath |-> f, prompt |-> p], fs |-> fs] :
        d \in {ValidPayload}, f \in StorageFolders, p \in StoragePrompts, fs \in FsOutcomes}
    \cup
    {[options |-> [base64DataUrl |-> d, folderPath |-> f, prompt |-> p], fs |-> fs] :
        d \in StoragePayloads, f \in StorageFolders, p \in {<<"c", "a", "t">>},
        fs \in FsOutcomes}

StorageInit ==
    /\ ServerInit({JsUndefined})
    /\ saveArgs \in SaveCalls
    /\ saveResult = NoCall
    /\ ExtensionInit

\* imageStorage.ts lines 73-126, called once with the arguments chosen
saveImageCall ==
    /\ saveResult = NoCall
    /\ saveArgs # NoCall
    /\ saveResult' = saveImage(saveArgs.options, saveArgs.fs)
    /\ UNCHANGED <<saveArgs, serverVars, connVars, retryVars, pollVars, requestVars, pageVars, waitVars>>

StorageNext == saveImageCall

StorageSpec == StorageInit /\ [][StorageNext]_vars

(* ------------- background script: connection to the server ------------- *)

LiveStates == {"CONNECTING", "OPEN", "CLOSING"}

\* the sockets that can still raise an event
LiveSockets == {s \in 1..MaxSockets : sockets[s] \in LiveStates}

\* sockets alive and reconnect timers armed
Population == Cardinality(LiveSockets) + Len(reconnectTimers)

\* part_003 line 322: new WebSocket(...), an object other than the one `ws`
\* referred to, which is no longer referenced once ws is assigned
NewSocket ==
    LET released == IF currentWs # 0 /\ sockets[currentWs] = "CLOSED"
                    THEN [sockets EXCEPT ![currentWs] = "none"] ELSE sockets
        free     == {s \in 1..MaxSockets : released[s] = "none"}
        others   == IF free \ {currentWs} # {} THEN free \ {currentWs} ELSE free
        new      == CHOOSE s \in others : \A t \in others : s <= t
    IN  [sockets |-> [released EXCEPT ![new] = "CONNECTING"], ws |-> new]

\* part_003 lines 318-374: connectWebSocket, as far as it runs at once: the
\* handlers it installs are the actions below
connectWebSocket ==
    IF currentWs # 0 /\ sockets[currentWs] = "OPEN"
    THEN UNCHANGED <<sockets, currentWs, wsStatus>>
    ELSE /\ wsStatus' = "connecting"
         /\ sockets' = NewSocket.sockets
         /\ currentWs' = NewSocket.ws

\* lines 324-328: ws.onopen of socket s
onopen(s) ==
    /\ sockets[s] = "CONNECTING"
    /\ serverReachable
    /\ sockets' = [sockets EXCEPT ![s] = "OPEN"]
    /\ wsStatus' = "connected"
    /\ keepaliveAlarm' = TRUE
    /\ UNCHANGED <<currentWs, reconnectTimers, serverReachable>>
    /\ UNCHANGED <<serverVars, storageVars, retryVars, pollVars, requestVars, pageVars, waitVars>>

\* the server goes away and the close handshake of an open socket begins:
\* readyState is CLOSING
closing(s) ==
    /\ sockets[s] = "OPEN"
    /\ ~serverReachable
    /\ sockets' = [sockets EXCEPT ![s] = "CLOSING"]
    /\ UNCHANGED <<currentWs, wsStatus, keepaliveAlarm, reconnectTimers, serverReachable>>
    /\ UNCHANGED <<serverVars, storageVars, retryVars, pollVars, requestVars, pageVars, waitVars>>

\* variant: a closed socket arms no timer
TimersAfterCloseNone(ts) == ts

\* line 366: setTimeout(connectWebSocket, 5000)
TimersAfterClose(ts) == Append(ts, 5000)

\* lines 361-367: ws.onclose of socket s, when its close handshake is done,
\* or when the server goes away and the connection is lost or cannot be
\* made. When the connection failed, ws.onerror (lines 369-373) runs first
\* in the same task and writes the same status and alarm.
onclose(s) ==
    /\ \/ sockets[s] = "CLOSING"
       \/ sockets[s] \in {"CONNECTING", "OPEN"} /\ ~serverReachable
    /\ sockets' = [sockets EXCEPT ![s] = IF currentWs = s THEN "CLOSED" ELSE "none"]
    /\ wsStatus' = "disconnected"
    /\ keepaliveAlarm' = FALSE
    /\ reconnectTimers' = TimersAfterClose(reconnectTimers)
    /\ UNCHANGED <<currentWs, serverReachable>>
    /\ UNCHANGED <<serverVars, storageVars, retryVars, pollVars, requestVars, pageVars, waitVars>>

\* the timer set at line 366 has run its 5000 ms: connectWebSocket is called
reconnectTimerFires ==
    /\ reconnectTimers # <<>>
    /\ Head(reconnectTimers) = 0
    /\ reconnectTimers' = Tail(reconnectTimers)
    /\ connectWebSocket
    /\ UNCHANGED <<keepaliveAlarm, serverReachable>>
    /\ UNCHANGED <<serverVars, storageVars, retryVars, pollVars, requestVars, pageVars, waitVars>>

\* lines 304-316: the alarm listener, for the alarm websocket-keepalive
keepaliveAlarmFires ==
    /\ keepaliveAlarm
    /\ IF currentWs = 0 \/ sockets[currentWs] # "OPEN"
       THEN /\ Population < MaxSockets
            /\ connectWebSocket
       ELSE UNCHANGED <<sockets, currentWs, wsStatus>>
    /\ UNCHANGED <<keepaliveAlarm, reconnectTimers, serverReachable>>
    /\ UNCHANGED <<serverVars, storageVars, retryVars, pollVars, requestVars, pageVars, waitVars>>

\* WorkerTickMs milliseconds pass; a timer that is due runs first
WorkerTick ==
    /\ reconnectTimers # <<>>
    /\ \A i \in DOMAIN reconnectTimers : reconnectTimers[i] > 0
    /\ reconnectTimers' = [i \in DOMAIN reconnectTimers |->
                              IF reconnectTimers[i] > WorkerTickMs
                              THEN reconnectTimers[i] - WorkerTickMs ELSE 0]
    /\ UNCHANGED <<sockets, currentWs, wsStatus, keepaliveAlarm, serverReachable>>
    /\ UNCHANGED <<serverVars, storageVars, retryVars, pollVars, requestVars, pageVars, waitVars>>

\* the server stops or starts accepting and keeping connections
serverAvailability ==
    /\ serverReachable' = ~serverReachable
    /\ UNCHANGED <<sockets, currentWs, wsStatus, keepaliveAlarm, reconnectTimers>>
    /\ UNCHANGED <<serverVars, storageVars, retryVars, pollVars, requestVars, pageVars, waitVars>>

ConnectInit ==
    /\ ServerInit({JsUndefined})
    /\ StorageIdle
    /\ WorkerLoaded
    /\ keepaliveAlarm \in BOOLEAN
    /\ serverReachable \in BOOLEAN
    /\ RetryIdle
    /\ PollIdle
    /\ NoRequests

ConnectNext ==
    \/ \E s \in 1..MaxSockets : onopen(s)
    \/ \E s \in 1..MaxSockets : closing(s)
    \/ \E s \in 1..MaxSockets : onclose(s)
    \/ reconnectTimerFires
    \/ keepaliveAlarmFires
    \/ WorkerTick
    \/ serverAvailability

\* the browser delivers the events of a socket, lets time pass and runs the
\* timers that are due
ConnectSpec ==
    /\ ConnectInit
    /\ [][ConnectNext]_vars
    /\ \A s \in 1..MaxSockets : WF_vars(onopen(s))
    /\ \A s \in 1..MaxSockets : WF_vars(sockets[s] = "CLOSING" /\ onclose(s))
    /\ WF_vars(reconnectTimerFires)
    /\ WF_vars(WorkerTick)

(* ------------- background script: sendMessageWithRetry ------------------ *)

\* the values of the parameter maxRetries: the call of line 413 passes 3,
\* which is also the default
MaxRetriesChoices == 0..MaxRetriesArg

TabIds == {7, 8}

\* how one chrome.tabs.sendMessage call can settle: the content script's
\* response, or a rejection
Responses ==
    { [t |-> "response", value |-> "success"], [t |-> "response", value |-> "failure"],
      [t |-> "response", value |-> "undefined"] }

SendErrors ==
    { [t |-> "error", isError |-> TRUE,
       message |-> <<"Could not establish connection. ",
                     "Receiving end does not exist", ".">>],
      [t |-> "error", isError |-> TRUE,
       message |-> <<"The message port closed before a response was received.">>],
      [t |-> "error", isError |-> TRUE,
       message |-> <<"A listener indicated an asynchronous response",
                     " by returning true, but the ", "message channel closed",
                     " before a response was received">>],
      [t |-> "error", isError |-> FALSE,
       message |-> <<"Receiving end does not exist">>] }

SendOutcomes == Responses \cup SendErrors

\* String.prototype.includes, on texts given as their pieces
Includes(text, part) ==
    \E i \in 1..(Len(text) - Len(part) + 1) : SubSeq(text, i, i + Len(part) - 1) = part

\* variant: every error is retried while attempts remain
ShouldRetryAnyError(error, attempt, maxRetries) == attempt < maxRetries

\* part_003 lines 527-536: errorMessage (error.message, or String(error)
\* for a value that is no Error), and the condition of the retry
ShouldRetry(error, attempt, maxRetries) ==
    /\ Includes(error.message, <<"Receiving end does not exist">>)
    /\ attempt < maxRetries

\* lines 516-522: the call; the loop is entered when 1 <= maxRetries, and
\* line 549 throws when it is not
sendMessageWithRetry(tabId, maxRetries) ==
    /\ sendMessageFrame.pc = "idle"
    /\ sendMessageFrame' =
          IF 1 <= maxRetries
          THEN [pc |-> "sending", tabId |-> tabId, maxRetries |-> maxRetries,
                attempt |-> 1, settled |-> <<>>]
          ELSE [pc |-> "thrown", tabId |-> tabId, maxRetries |-> maxRetries,
                attempt |-> 1, settled |-> <<>>,
                result |-> [t |-> "error", isError |-> TRUE,
                            message |-> <<"Failed to send message after retries">>]]
    /\ UNCHANGED <<serverVars, storageVars, connVars, pollVars, requestVars, pageVars, waitVars>>

\* lines 523-546: the await of chrome.tabs.sendMessage settles with outcome
sendMessageSettles(outcome) ==
    /\ sendMessageFrame.pc = "sending"
    /\ LET frame == [sendMessageFrame EXCEPT !.settled = Append(@, outcome)]
       IN  sendMessageFrame' =
              IF outcome.t = "response"
              THEN [frame EXCEPT !.pc = "returned"] @@ [result |-> outcome]
              ELSE IF ShouldRetry(outcome, frame.attempt, frame.maxRetries)
              THEN [frame EXCEPT !.pc = "waiting"] @@ [remaining |-> 1000]
              ELSE [frame EXCEPT !.pc = "thrown"] @@ [result |-> outcome]
    /\ UNCHANGED <<serverVars, storageVars, connVars, pollVars, requestVars, pageVars, waitVars>>

\* line 540: the timer of the wait runs down
retryWaitPasses ==
    /\ sendMessageFrame.pc = "waiting"
    /\ sendMessageFrame.remaining > 0
    /\ sendMessageFrame' =
          [sendMessageFrame EXCEPT !.remaining =
              IF @ > RetryTickMs THEN @ - RetryTickMs ELSE 0]
    /\ UNCHANGED <<serverVars, storageVars, connVars, pollVars, requestVars, pageVars, waitVars>>

\* lines 540-541 and 522: the wait is over, continue: attempt++ and the
\* next chrome.tabs.sendMessage call
retryNextAttempt ==
    /\ sendMessageFrame.pc = "waiting"
    /\ sendMessageFrame.remaining = 0
    /\ sendMessageFrame' =
          [pc |-> "sending", tabId |-> sendMessageFrame.tabId,
           maxRetries |-> sendMessageFrame.maxRetries,
           attempt |-> sendMessageFrame.attempt + 1,
           settled |-> sendMessageFrame.settled]
    /\ UNCHANGED <<serverVars, storageVars, connVars, pollVars, requestVars, pageVars, waitVars>>

RetryInit ==
    /\ ServerInit({JsUndefined})
    /\ StorageIdle
    /\ ExtensionInit

RetryNext ==
    \/ \E tabId \in TabIds, maxRetries \in MaxRetriesChoices :
          sendMessageWithRetry(tabId, maxRetries)
    \/ \E outcome \in SendOutcomes : sendMessageSettles(outcome)
    \/ retryWaitPasses
    \/ retryNextAttempt

RetrySpec == RetryInit /\ [][RetryNext]_vars

(* ------------------ content script: image polling ---------------------- *)

\* contentScript.ts lines 337-338
TIMEOUT == 60000

POLL_INTERVAL == 5000

\* what document.querySelectorAll(SELECTORS.IMAGE_CONTAINER) and the img of
\* the containers show: no container; containers without img; an img whose
\* src is shorter than MIN_IMAGE_SIZE; a long data:image src; a long src
\* that fetch can read; a long src that fetch cannot read
PageStates == {"empty", "noImage", "small", "base64", "remote", "remoteBroken"}

TimeoutErrorMessage ==
    <<"Image generation timed out after 30 seconds. Please check Grok service.">>

\* lines 335-344: the submit button was clicked, startTime = Date.now()
startPolling ==
    /\ pollFrame.pc = "idle"
    /\ pollFrame' = [pc |-> "loop", pollAttempt |-> 0, elapsed |-> 0, remaining |-> 0,
                     result |-> <<>>]
    /\ UNCHANGED page
    /\ UNCHANGED <<serverVars, storageVars, connVars, retryVars, requestVars, pageVars, waitVars>>

\* lines 346-353 and 425-428: the test of the while loop; inside, every
\* attempt but the first awaits waitFor(POLL_INTERVAL); after the loop the
\* timeout error is thrown
pollLoopTest ==
    /\ pollFrame.pc = "loop"
    /\ pollFrame' =
          IF pollFrame.elapsed < TIMEOUT
          THEN [pollFrame EXCEPT !.pc = "waiting",
                                 !.pollAttempt = @ + 1,
                                 !.remaining = IF pollFrame.pollAttempt + 1 > 1
                                               THEN POLL_INTERVAL ELSE 0]
          ELSE [pollFrame EXCEPT !.pc = "thrown", !.result = TimeoutErrorMessage]
    /\ UNCHANGED page
    /\ UNCHANGED <<serverVars, storageVars, connVars, retryVars, requestVars, pageVars, waitVars>>

\* line 352: time passes during waitFor
pollWaitPasses ==
    /\ pollFrame.pc = "waiting"
    /\ pollFrame.remaining > 0
    /\ LET passed == IF pollFrame.remaining > PollTickMs
                     THEN PollTickMs ELSE pollFrame.remaining
       IN  pollFrame' = [pollFrame EXCEPT !.remaining = @ - passed,
                                          !.elapsed = @ + passed]
    /\ UNCHANGED page
    /\ UNCHANGED <<serverVars, storageVars, connVars, retryVars, requestVars, pageVars, waitVars>>

\* lines 355-423: the containers are read; a generated image is returned,
\* as it is or fetched and converted; otherwise the loop goes on
inspectPage ==
    /\ pollFrame.pc = "waiting"
    /\ pollFrame.remaining = 0
    /\ pollFrame' =
          IF page \in {"base64", "remote"}
          THEN [pollFrame EXCEPT !.pc = "returned", !.result = <<page>>]
          ELSE [pollFrame EXCEPT !.pc = "loop"]
    /\ UNCHANGED page
    /\ UNCHANGED <<serverVars, storageVars, connVars, retryVars, requestVars, pageVars, waitVars>>

\* the page renders something else
pageChanges(shown) ==
    /\ shown # page
    /\ page' = shown
    /\ UNCHANGED pollFrame
    /\ UNCHANGED <<serverVars, storageVars, connVars, retryVars, requestVars, pageVars, waitVars>>

PollInit ==
    /\ ServerInit({JsUndefined})
    /\ StorageIdle
    /\ WorkerLoaded
    /\ keepaliveAlarm = FALSE
    /\ serverReachable = TRUE
    /\ RetryIdle
    /\ pollFrame = [pc |-> "idle"]
    /\ page \in PageStates
    /\ NoRequests

PollNext ==
    \/ startPolling
    \/ pollLoopTest
    \/ pollWaitPasses
    \/ inspectPage
    \/ \E shown \in PageStates : pageChanges(shown)

\* the content script runs on and its timers run down
PollSpec ==
    /\ PollInit
    /\ [][PollNext]_vars
    /\ WF_vars(pollLoopTest)
    /\ WF_vars(pollWaitPasses)
    /\ WF_vars(inspectPage)

(* ------------------------------ properties ----------------------------- *)

\* the timer handle armed for call c, and the id generated for it
HandleOf(c) == CHOOSE h \in DOMAIN timers : timers[h].caller = c

AcceptedCalls == {timers[h].caller : h \in DOMAIN timers}

\* C1: whatever the interleaving of responses, duplicates and timer expiry,
\* the resolve/reject of a call is invoked at most once, exactly once when
\* the call is settled, and the outcome is that of the first event that
\* reached the call.
AtMostOnceSettlement ==
    \A c \in DOMAIN futures :
        /\ settleCalls[c] <= 1
        /\ (futures[c] # Unsettled) <=> (settleCalls[c] = 1)
        /\ futures[c] = firstEvent[c]

\* a request settled by a response for which a further response arrived
DuplicateResponseSeen ==
    \E h \in DOMAIN timers :
        /\ timers[h].requestId \in discarded
        /\ futures[timers[h].caller].kind = "resolved"

\* C2: a requestImage call made while no worker is connected is rejected in
\* the same step with the no-clients error; no map entry, no timer, no send.
NoWorkerFastPath ==
    [][(Len(futures') = Len(futures) + 1 /\ Len(wsConnections) = 0)
        => /\ futures'[Len(futures')] = Rejected(NoClientsMessage)
           /\ pendingRequests' = pendingRequests
           /\ timers' = timers
           /\ sendCalls' = <<>>
           /\ uuids' = uuids]_vars

\* a call was refused for lack of workers
RefusedCallSeen ==
    \E c \in DOMAIN futures :
        futures[c] = Rejected(NoClientsMessage) /\ c \notin AcceptedCalls

\* C3: in every state, handling an envelope whose id is not in the pending
\* map is possible (nothing is raised) and cannot change the map, a timer, a
\* future, the connections or the transport.
UnknownIdIsNoOp ==
    \A r \in Envelopes :
        r.requestId \notin DOMAIN pendingRequests =>
            /\ ENABLED handleImageResponse(r)
            /\ ~ENABLED (/\ handleImageResponse(r)
                         /\ \/ <<pendingRequests, timers, futures, settleCalls,
                                  wsConnections, uuids>>'
                                # <<pendingRequests, timers, futures, settleCalls,
                                    wsConnections, uuids>>
                            \/ sendCalls' # <<>>)

\* an envelope was discarded while another request was pending
DiscardedWhilePending ==
    discarded # {} /\ DOMAIN pendingRequests # {}

\* C4: clearPendingRequests rejects every pending call with the shutdown
\* error, empties the map and cancels every pending timer; a cancelled timer
\* stays cancelled, so its callback never runs.
ShutdownSettlesAll ==
    [][/\ clearPendingRequests =>
            /\ DOMAIN pendingRequests' = {}
            /\ \A id \in DOMAIN pendingRequests :
                  /\ futures'[pendingRequests[id].caller] = Rejected(ShutdownMessage)
                  /\ timers'[pendingRequests[id].timeout].state = "cleared"
       /\ \A h \in DOMAIN timers :
            timers[h].state = "cleared" => timers'[h].state = "cleared"]_vars

\* two calls were settled by shutdown and their timers are cancelled
ShutdownSeen ==
    \E c1, c2 \in AcceptedCalls :
        /\ c1 # c2
        /\ futures[c1] = Rejected(ShutdownMessage)
        /\ futures[c2] = Rejected(ShutdownMessage)
        /\ timers[HandleOf(c1)].state = "cleared"
        /\ timers[HandleOf(c2)].state = "cleared"

\* C5: under fairness of the timer, every accepted call is eventually
\* settled, and an accepted call whose id is no longer in the map is settled.
EveryAcceptedRequestSettles ==
    /\ \A c \in 1..MaxCalls :
          (c \in AcceptedCalls) ~> (c \in AcceptedCalls /\ futures[c] # Unsettled)
    /\ [](\A c \in AcceptedCalls :
            timers[HandleOf(c)].requestId \notin DOMAIN pendingRequests
                => futures[c] # Unsettled)

\* one accepted call was settled by its timer and another by shutdown
TimerAndShutdownSettled ==
    \E c1, c2 \in AcceptedCalls :
        /\ timers[HandleOf(c1)].state = "fired"
        /\ futures[c1].kind = "rejected"
        /\ futures[c2] = Rejected(ShutdownMessage)

\* C6: a request whose timer callback ran is rejected with the text "timed
\* out after <configured duration>ms" and is no longer in the map; while the
\* timer is armed the request is pending and unsettled.
TimeoutSettlesAsFailure ==
    \A h \in DOMAIN timers :
        /\ timers[h].state = "fired" =>
              /\ futures[timers[h].caller] =
                    Rejected(<<"Image request timed out after ",
                               ToString(REQUEST_TIMEOUT.n), "ms">>)
              /\ timers[h].requestId \notin DOMAIN pendingRequests
        /\ timers[h].state = "armed" =>
              /\ futures[timers[h].caller] = Unsettled
              /\ timers[h].requestId \in DOMAIN pendingRequests

\* a request timed out under a duration set by the environment
ConfiguredTimeoutFired ==
    /\ REQUEST_TIMEOUT # JsNumber(60000)
    /\ \E h \in DOMAIN timers : timers[h].state = "fired"

\* C7: a request settled by a response has its timer cancelled (it never
\* fires), is out of the map, and had its resolve invoked exactly once even
\* when further responses for its id arrived.
ResponseCancelsTimeout ==
    \A h \in DOMAIN timers :
        futures[timers[h].caller].kind = "resolved" =>
            /\ timers[h].state = "cleared"
            /\ timers[h].requestId \notin DOMAIN pendingRequests
            /\ settleCalls[timers[h].caller] = 1

\* a response settled one request with time left, a timer settled another
ResponseBeatTimer ==
    \E h1, h2 \in DOMAIN timers :
        /\ futures[timers[h1].caller].kind = "resolved"
        /\ timers[h1].state = "cleared"
        /\ timers[h1].requestId \in discarded
        /\ timers[h2].state = "fired"

\* what the claim C8 takes for a non-empty payload sequence
NonEmptyPayloads(v) ==
    \/ v.t = "array" /\ Len(v.a) > 0
    \/ v.t = "string" /\ v.s # ""

\* the settlement claim C8 expects for an envelope
ClaimedResult(r) ==
    IF r.success /\ NonEmptyPayloads(r.imageData)
    THEN [success |-> TRUE, imageData |-> r.imageData]
    ELSE [success |-> FALSE,
          error |-> IF r.error.t = "string" /\ r.error.s # ""
                    THEN r.error ELSE JsString("Unknown error occurred")]

\* C8: a response for a pending request settles it as a result exactly when
\* success is true and the payload sequence is non-empty, and as a failure
\* with the envelope's error text (or the unknown-error text) otherwise.
ResponseClassification ==
    \A r \in Envelopes :
        r.requestId \in DOMAIN pendingRequests =>
            ~ENABLED (/\ handleImageResponse(r)
                      /\ futures'[pendingRequests[r.requestId].caller]
                            # Resolved(ClaimedResult(r)))

\* C9: the map holds exactly the ids of the accepted, unsettled calls; an id
\* enters only in a requestImage step taken with a connected worker, and
\* only an id that was never generated before.
PendingMapExact ==
    [][/\ DOMAIN pendingRequests' =
            {timers'[h].requestId :
                h \in {x \in DOMAIN timers' : futures'[timers'[x].caller] = Unsettled}}
       /\ \A id \in DOMAIN pendingRequests' \ DOMAIN pendingRequests :
            /\ Len(wsConnections) > 0
            /\ Len(futures') = Len(futures) + 1
            /\ id > uuids]_vars

\* one request is pending while an earlier one has left the map by timeout
PendingBesideSettled ==
    /\ DOMAIN pendingRequests # {}
    /\ \E h \in DOMAIN timers :
          timers[h].state = "fired" /\ timers[h].requestId \notin DOMAIN pendingRequests

\* C10: an accepted requestImage calls send once on every connection of the
\* set, in order, with the message of the new id, whichever sends throw; the
\* call stays unsettled, pending, with its timer armed.
FanoutReachesEveryWorker ==
    [][uuids' # uuids =>
        /\ Len(sendCalls') = Len(wsConnections)
        /\ \A i \in DOMAIN sendCalls' :
              /\ sendCalls'[i].ws = wsConnections[i]
              /\ sendCalls'[i].message.type = "requestImage"
              /\ sendCalls'[i].message.requestId = uuids'
        /\ futures'[Len(futures')] = Unsettled
        /\ uuids' \in DOMAIN pendingRequests'
        /\ timers'[Len(timers')].state = "armed"]_vars

\* a send threw, the next connection was still sent to, the request is pending
SendFailureThenDelivery ==
    \E i, j \in DOMAIN sendCalls :
        /\ i < j
        /\ sendCalls[i].threw
        /\ ~sendCalls[j].threw
        /\ sendCalls[j].message.requestId \in DOMAIN pendingRequests

\* C11: removing a connection, the last one included, cannot change the
\* map, a timer or a future; whatever the connection set, each pending
\* request still has its timer armed and can be settled by a response for
\* its id.
DisconnectKeepsPending ==
    /\ \A ws \in Conns :
          /\ ENABLED removeWebSocketConnection(ws)
          /\ ~ENABLED (/\ removeWebSocketConnection(ws)
                       /\ <<pendingRequests, timers, futures, settleCalls>>'
                            # <<pendingRequests, timers, futures, settleCalls>>)
    /\ \A id \in DOMAIN pendingRequests :
          /\ timers[pendingRequests[id].timeout].state = "armed"
          /\ \E r \in Envelopes :
                /\ r.requestId = id
                /\ ENABLED (/\ handleImageResponse(r)
                            /\ futures'[pendingRequests[id].caller]
                                  = Resolved(ResponseResult(r)))

\* a request is pending although every worker it was sent to has disconnected
PendingWithoutWorkers ==
    Len(wsConnections) = 0 /\ DOMAIN pendingRequests # {}

\* C12: an accepted request sends one and the same message to every
\* connected worker; a response the bridge receives for a pending id settles
\* exactly that id's caller and removes the entry, and a response for an id
\* that is no longer pending (a second worker's answer) changes nothing.
FirstResponseWins ==
    [][/\ uuids' # uuids =>
            /\ \A ws \in Members(wsConnections) :
                   \E i \in DOMAIN sendCalls' : sendCalls'[i].ws = ws
            /\ \A i, j \in DOMAIN sendCalls' :
                   sendCalls'[i].message = sendCalls'[j].message
       /\ wsLog' = <<"Received message type">> =>
            \/ /\ discarded' # {}
               /\ discarded' \cap DOMAIN pendingRequests = {}
               /\ UNCHANGED <<pendingRequests, timers, futures, settleCalls,
                              wsConnections>>
            \/ /\ discarded' = {}
               /\ \E id \in DOMAIN pendingRequests :
                     LET c == pendingRequests[id].caller
                     IN  /\ pendingRequests' = MapDelete(pendingRequests, id)
                         /\ futures[c] = Unsettled
                         /\ futures'[c].kind = "resolved"
                         /\ \A d \in DOMAIN futures \ {c} :
                               futures'[d] = futures[d]]_vars

\* with two workers connected, a request was settled by a response and one
\* more response for the same id has just been discarded
SecondWorkerAnswerDiscarded ==
    /\ Len(wsConnections) = 2
    /\ wsLog = <<"Received message type">>
    /\ \E h \in DOMAIN timers :
          /\ discarded = {timers[h].requestId}
          /\ futures[timers[h].caller].kind = "resolved"
          /\ futures[timers[h].caller].value.success

\* C13: a step settles the future of a caller only by taking that caller's
\* own id out of the map, with the outcome of the event addressed to that id;
\* every id a step takes out of the map settles its own caller, and a call
\* refused for lack of workers is the only one its refusal reaches.
OutcomeReachesOwnCaller ==
    [][/\ \A c \in DOMAIN futures :
            futures'[c] # futures[c] =>
                /\ futures[c] = Unsettled
                /\ futures'[c] = firstEvent'[c]
                /\ \E id \in DOMAIN pendingRequests \ DOMAIN pendingRequests' :
                      /\ pendingRequests[id].caller = c
                      /\ timers[HandleOf(c)].requestId = id
       /\ \A id \in DOMAIN pendingRequests \ DOMAIN pendingRequests' :
            /\ futures'[pendingRequests[id].caller] # Unsettled
            /\ \A other \in DOMAIN pendingRequests \ {id} :
                  pendingRequests[other].caller # pendingRequests[id].caller
       /\ Len(futures') > Len(futures) =>
            /\ Len(futures') = Len(futures) + 1
            /\ \A c \in DOMAIN futures : futures'[c] = futures[c]
            /\ futures'[Len(futures')] \in {Unsettled, Rejected(NoClientsMessage)}]_vars

\* two accepted calls were settled differently: one by its own timeout or the
\* shutdown, the other by a worker's response
CallersSettledApart ==
    \E c, d \in AcceptedCalls :
        /\ futures[c].kind = "rejected"
        /\ futures[d].kind = "resolved"
        /\ timers[HandleOf(c)].requestId # timers[HandleOf(d)].requestId

\* the request a step was about: the id of the response the bridge received
\* (settled or discarded) or of the timer that fired
AddressedIds ==
    discarded' \cup (DOMAIN pendingRequests \ DOMAIN pendingRequests')
        \cup {timers[h].requestId :
                h \in {x \in DOMAIN timers : /\ timers[x].state = "armed"
                                              /\ timers'[x].state = "fired"}}

\* C14: a step in which the bridge receives a response, first or duplicate,
\* or in which a timer fires is about one request; every other pending
\* request keeps its entry, its armed timer and its unsettled future, and
\* every other call's future stays as it was.
RequestsAreIndependent ==
    [][(\/ wsLog' = <<"Received message type">>
        \/ \E h \in DOMAIN timers : timers[h].state = "armed" /\ timers'[h].state = "fired")
       =>
       /\ Cardinality(AddressedIds) = 1
       /\ \A B \in DOMAIN pendingRequests \ AddressedIds :
            /\ B \in DOMAIN pendingRequests'
            /\ pendingRequests'[B] = pendingRequests[B]
            /\ timers'[pendingRequests[B].timeout] = timers[pendingRequests[B].timeout]
            /\ timers'[pendingRequests[B].timeout].state = "armed"
            /\ futures'[pendingRequests[B].caller] = Unsettled
       /\ \A h \in DOMAIN timers :
            timers[h].requestId \notin AddressedIds =>
                /\ timers'[h] = timers[h]
                /\ futures'[timers[h].caller] = futures[timers[h].caller]]_vars

\* two requests were pending together; the later one has just been settled
\* by a response and the earlier one is still pending with its timer armed
OtherRequestStillPending ==
    /\ wsLog = <<"Received message type">>
    /\ discarded = {}
    /\ \E a, b \in DOMAIN timers :
          /\ b < a
          /\ futures[timers[a].caller].kind = "resolved"
          /\ timers[b].requestId \in DOMAIN pendingRequests
          /\ timers[b].state = "armed"
          /\ futures[timers[b].caller] = Unsettled

\* C15: no two accepted requests have the same id, and a response the bridge
\* receives settles a call only if that call is the single one whose id the
\* response carries: a response for an id drawn earlier is discarded and
\* leaves every request accepted since as it was.
RequestIdsAreUnique ==
    /\ [](\A h1, h2 \in DOMAIN timers :
              timers[h1].requestId = timers[h2].requestId => h1 = h2)
    /\ [][wsLog' = <<"Received message type">> =>
            /\ \A id \in DOMAIN pendingRequests \ DOMAIN pendingRequests' :
                  CallersOf(id) = {pendingRequests[id].caller}
            /\ \A id \in discarded' :
                  \A h \in DOMAIN timers :
                      /\ timers[h].requestId = id => futures[timers[h].caller] # Unsettled
                      /\ futures'[timers[h].caller] = futures[timers[h].caller]]_vars

\* a response for the id of a settled request was discarded while a request
\* accepted after it is pending and unsettled
LateResponseBesideLaterRequest ==
    \E old, new \in DOMAIN timers :
        /\ old < new
        /\ discarded = {timers[old].requestId}
        /\ futures[timers[old].caller] # Unsettled
        /\ timers[new].requestId \in DOMAIN pendingRequests
        /\ futures[timers[new].caller] = Unsettled

\* C16: the connection set holds exactly the connections added and not
\* removed since; adding a member or removing a non-member is possible and
\* leaves the set as it is, and hasConnectedClients is true exactly when
\* that collection is not empty.
PoolIsASet ==
    /\ Members(wsConnections) = clients
    /\ Len(wsConnections) = Cardinality(clients)
    /\ hasConnectedClients <=> clients # {}
    /\ \A ws \in Conns :
          /\ ENABLED (addWebSocketConnection(ws) /\ Members(wsConnections') = clients \cup {ws})
          /\ ENABLED (removeWebSocketConnection(ws) /\ Members(wsConnections') = clients \ {ws})
          /\ ws \in clients =>
                ~ENABLED (addWebSocketConnection(ws) /\ wsConnections' # wsConnections)
          /\ ws \notin clients =>
                ~ENABLED (removeWebSocketConnection(ws) /\ wsConnections' # wsConnections)

\* one connection is in the set and the other is not: adding the first again
\* and removing the second are both steps that keep the set
RepeatedAddAndRemoveKeepSet ==
    \E in, out \in Conns :
        /\ wsConnections = <<in>>
        /\ out \notin clients
        /\ hasConnectedClients
        /\ ENABLED (addWebSocketConnection(in) /\ wsConnections' = wsConnections)
        /\ ENABLED (removeWebSocketConnection(out) /\ wsConnections' = wsConnections)

\* the transport messages that are not JSON or do not have the type
\* "imageResponse"
NotAResponse(message) ==
    \/ "json" \notin DOMAIN message
    \/ message.json = JsNull
    \/ message.json.type # "imageResponse"

\* C17: while a socket is open, a message that is not valid JSON or whose
\* type is not "imageResponse" can be received, is logged, and cannot change
\* the map, a timer, a future, the record of events handed to the bridge or
\* the connection set; the bridge's response handler does not run.
UnhandledMessageOnlyLogged ==
    \A m \in TransportMessages :
        NotAResponse(m) =>
            /\ wsConnections # <<>> =>
                  ENABLED (websocketMessage(m) /\ wsLog' # <<>>)
            /\ ~ENABLED (/\ websocketMessage(m)
                         /\ \/ <<pendingRequests, timers, futures, settleCalls,
                                  firstEvent, wsConnections, clients, uuids>>'
                                # <<pendingRequests, timers, futures, settleCalls,
                                    firstEvent, wsConnections, clients, uuids>>
                            \/ discarded' # {}
                            \/ wsLog' = <<"Received message type">>)

\* a message of another type has just been logged while a request is
\* pending with its timer armed
UnknownTypeLoggedWhilePending ==
    /\ wsLog = <<"Received message type", "Unknown message type">>
    /\ \E id \in DOMAIN pendingRequests :
          /\ timers[pendingRequests[id].timeout].state = "armed"
          /\ futures[pendingRequests[id].caller] = Unsettled

IsErrorReport(r) ==
    /\ r # NoReport
    /\ "isError" \in DOMAIN r
    /\ r.isError
    /\ r.content[1].text[1] = "Error: "

IsSuccessReport(r) ==
    /\ r # NoReport
    /\ "content" \in DOMAIN r
    /\ "isError" \notin DOMAIN r
    /\ r.content[1].text[1] = "Image saved to:"

\* C18: every invocation has made exactly one requestImage call; it has no
\* report before that call is settled, can return as soon as it is, returns
\* a success report or an error report (an error report whenever the call
\* was rejected or resolved as a failure), and the step that returns makes
\* no further call and a report once returned is never replaced.
OneCallOneReport ==
    /\ [](/\ Len(handlers) = Len(futures)
          /\ \A c \in DOMAIN handlers :
                LET r == handlers[c].report
                IN  /\ r # NoReport =>
                          /\ futures[c] # Unsettled
                          /\ IsErrorReport(r) # IsSuccessReport(r)
                          /\ IsSuccessReport(r) =>
                                /\ futures[c].kind = "resolved"
                                /\ futures[c].value.success
                    /\ (r = NoReport /\ futures[c] # Unsettled) =>
                          \A fs \in FsOutcomes : ENABLED generateImageReturn(c, fs))
    /\ [][/\ handlers' # handlers =>
                \/ /\ Len(handlers') = Len(handlers) + 1
                   /\ Len(futures') = Len(futures) + 1
                   /\ \A c \in DOMAIN handlers : handlers'[c] = handlers[c]
                \/ /\ Len(handlers') = Len(handlers)
                   /\ UNCHANGED <<futures, uuids, pendingRequests, timers>>
                   /\ \A c \in DOMAIN handlers :
                         handlers[c].report # NoReport => handlers'[c] = handlers[c]
          /\ Len(futures') > Len(futures) => Len(handlers') = Len(handlers) + 1]_vars

\* every way a call can end has been reported: a call refused or timed out
\* or shut down and a call answered by a worker, one with a success report
ReportsOfBothKinds ==
    \E c, d \in DOMAIN handlers :
        /\ IsErrorReport(handlers[c].report)
        /\ futures[c].kind = "rejected"
        /\ IsSuccessReport(handlers[d].report)

\* a call that ended in a registry failure: rejected (no workers, timeout,
\* shutdown) or resolved with success: false (failure reported by a worker)
IsRegistryFailure(outcome) ==
    \/ outcome.kind = "rejected"
    \/ outcome.kind = "resolved" /\ ~outcome.value.success

\* the failure description the registry handed to the front-end
FailureDescription(outcome) ==
    IF outcome.kind = "rejected" THEN outcome.message ELSE <<outcome.value.error.s>>

\* C19, as stated: the text reported for a registry failure is the failure
\* description itself.
ReportTextIsDescription ==
    \A c \in DOMAIN handlers :
        (handlers[c].report # NoReport /\ IsRegistryFailure(futures[c])) =>
            handlers[c].report.content[1].text = FailureDescription(futures[c])

\* C19, amended: the report for a registry failure is an error report with a
\* single text item, and that text is "Error: " followed by the failure
\* description, unchanged.
ReportTextIsPrefixedDescription ==
    \A c \in DOMAIN handlers :
        (handlers[c].report # NoReport /\ IsRegistryFailure(futures[c])) =>
            /\ handlers[c].report.isError
            /\ Len(handlers[c].report.content) = 1
            /\ handlers[c].report.content[1].type = "text"
            /\ handlers[c].report.content[1].text
                  = <<"Error: ">> \o FailureDescription(futures[c])

\* a failure reported by a worker and a rejection by the registry have both
\* been reported to their callers
WorkerFailureReported ==
    \E c, d \in DOMAIN handlers :
        /\ futures[c] = Resolved([success |-> FALSE, error |-> JsString("worker failed")])
        /\ handlers[c].report # NoReport
        /\ handlers[c].report.content[1].text = <<"Error: ", "worker failed">>
        /\ futures[d].kind = "rejected"
        /\ handlers[d].report # NoReport

\* C20: every message of a fan-out has exactly the fields type, requestId,
\* prompt, aspectRatio, imageCount and timestamp, its type is "requestImage",
\* its requestId is the id under which the request is pending, and its
\* aspectRatio and imageCount are those of the invocation that made the call.
FanoutMessageFields ==
    \A i \in DOMAIN sendCalls :
        LET m      == sendCalls[i].message
            caller == handlers[Len(handlers)]
        IN  /\ DOMAIN m = {"type", "requestId", "prompt", "aspectRatio",
                           "imageCount", "timestamp"}
            /\ m.type = "requestImage"
            /\ m.requestId \in DOMAIN pendingRequests
            /\ m.prompt = caller.prompt
            /\ m.aspectRatio = caller.aspectRatio
            /\ "imageCount" \in DOMAIN caller
            /\ m.imageCount = caller.imageCount

(* ------------------------------ fairness ------------------------------- *)

\* the runtime lets time pass and runs the callback of every expired timer
FairSpec ==
    /\ Spec
    /\ WF_vars(Tick)
    /\ \A h \in 1..MaxCalls : WF_vars(TimeoutFire(h))

(* ------------------------ payload validation (C23) ---------------------- *)

\* the first place in text where part begins, 0 when there is none
FirstIndexOf(text, part) ==
    LET places == {i \in 1..(Len(text) - Len(part) + 1) :
                      SubSeq(text, i, i + Len(part) - 1) = part}
    IN  IF places = {} THEN 0 ELSE CHOOSE i \in places : \A j \in places : i <= j

EndsWith(text, part) ==
    /\ Len(text) >= Len(part)
    /\ SubSeq(text, Len(text) - Len(part) + 1, Len(text)) = part

\* the defects of a payload: no data:image/ prefix, no ";base64," with its
\* comma, nothing after the comma
MissingPrefix(text) == ~StartsWith(text, DataImagePrefix)

MissingComma(text) == FirstIndexOf(text, Base64Marker) = 0

EmptyDataSegment(text) ==
    /\ FirstIndexOf(text, Base64Marker) # 0
    /\ FirstIndexOf(text, Base64Marker) + Len(Base64Marker) > Len(text)

IsBase64Char(c) == IsLetter(c) \/ c \in Digits \/ c \in {"+", "/", "="}

\* text is data:image/<format>;base64,<data> with this format and this data
IsDataUrlOf(text, format, data) ==
    /\ text = DataImagePrefix \o format \o Base64Marker \o data
    /\ format # <<>> /\ \A i \in DOMAIN format : IsLetter(format[i])
    /\ data # <<>> /\ \A i \in DOMAIN data : IsBase64Char(data[i])

IsInvalidPayload(message) ==
    message \in {<<"Invalid data URL: must start with 'data:image/'">>,
                 <<"Invalid data URL format: expected 'data:image/{format};base64,{data}'">>}

\* a saveImage call with a string payload and an absolute folder has returned
SavedStringPayload ==
    /\ saveResult # NoCall
    /\ saveArgs.options.base64DataUrl.t = "string"
    /\ StartsWith(saveArgs.options.folderPath, <<"/">>)

\* C23: a saveImage call (absolute folder) whose payload lacks the
\* data:image/ prefix, lacks the comma of ";base64,", or has an empty data
\* segment throws an invalid-data-URL error and has written no file; a call
\* whose payload is data:image/<format>;base64,<data> writes, when the file
\* system accepts the writes, files that all end in ".<format>".
PayloadValidatedBeforeWrite ==
    SavedStringPayload =>
        LET text == saveArgs.options.base64DataUrl.s
        IN  /\ (MissingPrefix(text) \/ MissingComma(text) \/ EmptyDataSegment(text)) =>
                  /\ saveResult.threw
                  /\ IsInvalidPayload(saveResult.message)
                  /\ saveResult.written = {}
            /\ \A format \in PayloadFormats, data \in PayloadData :
                  (IsDataUrlOf(text, format, data) /\ saveArgs.fs = "ok") =>
                      /\ ~saveResult.threw
                      /\ saveResult.written # {}
                      /\ \A path \in saveResult.written :
                            EndsWith(path, <<".">> \o format)

\* a payload that ends at the comma has been refused
EmptyDataRefused ==
    /\ SavedStringPayload
    /\ StartsWith(saveArgs.options.base64DataUrl.s, DataImagePrefix)
    /\ EmptyDataSegment(saveArgs.options.base64DataUrl.s)
    /\ saveResult.threw
    /\ saveResult.written = {}

(* --------------------------- file names (C24) --------------------------- *)

\* the name part of a path saveImage wrote: what stands between the folder
\* and "_<timestamp>"
NameOf(path) ==
    LET stamp == CHOOSE i \in DOMAIN path : path[i] = Timestamp
        slash == CHOOSE i \in 1..stamp :
                    /\ path[i] = "/"
                    /\ \A j \in (i + 1)..stamp : path[j] # "/"
    IN  SubSeq(path, slash + 1, stamp - 2)

\* what one character of the prompt leaves in the name: a run of whitespace
\* leaves one underscore at its first character, a letter its lowercase
\* form, a digit, underscore or hyphen itself, anything else nothing
Leaves(text, i) ==
    IF IsWhitespace(text[i])
    THEN IF i = 1 \/ ~IsWhitespace(text[i - 1]) THEN <<"_">> ELSE <<>>
    ELSE IF IsLetter(text[i]) THEN <<LowerOf(text[i])>>
    ELSE IF text[i] \in Digits \cup {"_", "-"} THEN <<text[i]>>
    ELSE <<>>

\* what the characters lo..hi of the prompt leave, in order
RECURSIVE LeftBy(_, _, _)
LeftBy(text, lo, hi) ==
    IF lo > hi THEN <<>>
    ELSE IF lo = hi THEN Leaves(text, lo)
    ELSE LeftBy(text, lo, (lo + hi) \div 2) \o LeftBy(text, (lo + hi) \div 2 + 1, hi)

\* a saveImage call has written its files
ImageSaved == saveResult # NoCall /\ ~saveResult.threw

\* C24: the name saveImage derives from the prompt has only characters of
\* [a-z0-9_-] (so no uppercase letter), is at most 50 characters long, and
\* is the start of what the prompt leaves when every run of whitespace
\* becomes one underscore, letters are lowercased and other characters are
\* dropped ("image" when nothing is left).
SanitizedNameIsSafe ==
    ImageSaved =>
        \A k \in DOMAIN saveResult.paths :
            LET name == NameOf(saveResult.paths[k])
                left == LeftBy(saveArgs.options.prompt, 1, Len(saveArgs.options.prompt))
            IN  /\ \A i \in DOMAIN name :
                      name[i] \in Range(LowerCase) \cup Digits \cup {"_", "-"}
                /\ Len(name) <= 50
                /\ IF left = <<>>
                   THEN name = <<"i", "m", "a", "g", "e">>
                   ELSE /\ Len(name) = (IF Len(left) < 50 THEN Len(left) ELSE 50)
                        /\ name = SubSeq(left, 1, Len(name))

\* a prompt of more than 50 characters with capitals, whitespace in runs and
\* punctuation has been saved under a name of 50 characters
LongMixedPromptSaved ==
    /\ ImageSaved
    /\ LET prompt == saveArgs.options.prompt
       IN  /\ Len(prompt) > 50
           /\ \E i \in DOMAIN prompt : prompt[i] \in Range(UpperCase)
           /\ \E i \in 1..(Len(prompt) - 1) :
                 IsWhitespace(prompt[i]) /\ IsWhitespace(prompt[i + 1])
           /\ \E i \in DOMAIN prompt : prompt[i] = "!"
    /\ Len(NameOf(saveResult.paths[1])) = 50

(* ------------------- files of one request (C21, C22) -------------------- *)

\* part occurs in text
Mentions(text, part) == FirstIndexOf(text, part) # 0

\* a saveImage call with an absolute folder, on a file system that accepts
\* every write, has returned or thrown
SaveAttempted ==
    /\ saveResult # NoCall
    /\ StartsWith(saveArgs.options.folderPath, <<"/">>)
    /\ saveArgs.fs = "ok"

\* C21: the save of a successful request that returned three payloads writes
\* exactly three files, named ..._<timestamp>_1, _2 and _3; the save of a
\* request that returned one payload writes exactly one file, with no
\* numeric suffix.
OneFilePerPayload ==
    SaveAttempted =>
        LET payload == saveArgs.options.base64DataUrl
        IN  /\ (payload.t = "array" /\ Len(payload.a) = 3) =>
                  /\ ~saveResult.threw
                  /\ Cardinality(saveResult.written) = 3
                  /\ \A k \in 1..3 :
                        \E path \in saveResult.written :
                            Mentions(path, <<Timestamp, "_", ToString(k), ".">>)
            /\ payload = ValidPayload =>
                  /\ ~saveResult.threw
                  /\ Cardinality(saveResult.written) = 1
                  /\ \A path \in saveResult.written :
                        Mentions(path, <<Timestamp, ".">>)

\* C22: when saveImage fails after it wrote a file, the report the handler
\* returns for the failure lists every path that was written.
WrittenPathsReported ==
    (saveResult # NoCall /\ saveResult.threw) =>
        \A path \in saveResult.written :
            Mentions(CatchBranch(saveResult.message).content[1].text, path)

(* ------------------------- timeout value (C25) -------------------------- *)

\* C25: every timeout armed by requestImage is a positive integer number of
\* milliseconds: the number IMAGE_REQUEST_TIMEOUT spells when the variable
\* is set to a text, 60000 otherwise.
TimeoutIsPositiveInteger ==
    \A h \in DOMAIN timers :
        LET delay == timers[h].delay
        IN  /\ delay.t = "number"
            /\ delay.n \in Nat \ {0}
            /\ IF Truthy(IMAGE_REQUEST_TIMEOUT)
               THEN IMAGE_REQUEST_TIMEOUT.s = NumberToString(delay)
               ELSE delay.n = 60000

(* ------------------------- reconnection (C26) --------------------------- *)

\* the worker has an open socket to the server
WorkerConnected == currentWs # 0 /\ sockets[currentWs] = "OPEN"

\* C26: every socket of the worker that closes arms a timer of 5000 ms; the
\* timer runs only when its time is up and its call of connectWebSocket
\* leaves ws open or connecting; and a worker without an open socket gets
\* one again, unless the server stops being reachable.
WorkerReconnects ==
    /\ [][\A s \in 1..MaxSockets :
            (sockets[s] \in LiveStates /\ sockets'[s] \notin LiveStates) =>
                /\ Len(reconnectTimers') = Len(reconnectTimers) + 1
                /\ reconnectTimers'[Len(reconnectTimers')] = 5000]_vars
    /\ [][Len(reconnectTimers') < Len(reconnectTimers) =>
                /\ Head(reconnectTimers) = 0
                /\ currentWs' # 0
                /\ sockets'[currentWs'] \in {"CONNECTING", "OPEN"}]_vars
    /\ (~WorkerConnected) ~> (WorkerConnected \/ ~serverReachable)

\* the first socket closed, its timer ran, and a later socket is open
ReconnectedAfterClose ==
    /\ WorkerConnected
    /\ currentWs # 1
    /\ sockets[1] = "none"
    /\ reconnectTimers = <<>>
    /\ wsStatus = "connected"

(* --------------------- delivery with retry (C27) ------------------------ *)

IsReceivingEndError(outcome) ==
    /\ outcome.t = "error"
    /\ \E i \in DOMAIN outcome.message :
          outcome.message[i] = "Receiving end does not exist"

\* the last attempt that settled
LastSettled == sendMessageFrame.settled[Len(sendMessageFrame.settled)]

\* C27: called with maxRetries = 3, sendMessageWithRetry makes at most 3
\* attempts; an attempt after the first is made only when the one before
\* failed with "Receiving end does not exist", fewer than 3 were made, and
\* the wait of 1000 ms is over; any other error, and that error on the third
\* attempt, is thrown as it is when the attempt settles; a response is
\* returned when its attempt settles, with no further attempt.
RetryOnlyWhenNotReady ==
    /\ []((sendMessageFrame.pc # "idle" /\ sendMessageFrame.maxRetries = 3) =>
            LET frame == sendMessageFrame
                made  == Len(frame.settled)
            IN  /\ frame.attempt <= 3
                /\ made <= 3
                /\ \A i \in 1..(made - 1) : IsReceivingEndError(frame.settled[i])
                /\ frame.pc = "sending" => frame.attempt = made + 1
                /\ frame.pc = "waiting" =>
                      /\ IsReceivingEndError(LastSettled)
                      /\ made < 3
                      /\ frame.attempt = made
                /\ frame.pc = "returned" =>
                      /\ LastSettled.t = "response"
                      /\ frame.result = LastSettled
                      /\ frame.attempt = made
                /\ frame.pc = "thrown" =>
                      /\ LastSettled.t = "error"
                      /\ frame.result = LastSettled
                      /\ frame.attempt = made
                      /\ ~IsReceivingEndError(LastSettled) \/ made = 3)
    /\ [][/\ (sendMessageFrame.pc # "waiting" /\ sendMessageFrame'.pc = "waiting") =>
                sendMessageFrame'.remaining = 1000
          /\ (sendMessageFrame.pc = "waiting" /\ sendMessageFrame'.pc # "waiting") =>
                /\ sendMessageFrame.remaining = 0
                /\ sendMessageFrame'.pc = "sending"
          /\ sendMessageFrame.pc \in {"returned", "thrown"} =>
                sendMessageFrame' = sendMessageFrame]_vars

\* two attempts found no receiving end and were retried; the third found
\* none either and its error was thrown
ThirdAttemptThrown ==
    /\ sendMessageFrame.pc = "thrown"
    /\ sendMessageFrame.maxRetries = 3
    /\ Len(sendMessageFrame.settled) = 3
    /\ IsReceivingEndError(sendMessageFrame.result)

(* ------------------------- image polling (C28) -------------------------- *)

PollingDone == pollFrame.pc \in {"returned", "thrown"}

\* C28: the polling loop looks at the page every 5000 ms, gives up with the
\* timeout error once 30000 ms have passed without a generated image, and
\* always ends.
PollingGivesUpAfter30Seconds ==
    /\ [][(pollFrame.pc = "waiting" /\ pollFrame'.pc # "waiting" /\ pollFrame.pollAttempt > 1) =>
              pollFrame.elapsed = (pollFrame.pollAttempt - 1) * POLL_INTERVAL]_vars
    /\ [](pollFrame.pc = "thrown" =>
              /\ pollFrame.result = TimeoutErrorMessage
              /\ pollFrame.elapsed = 30000)
    /\ (pollFrame.pc # "idle") ~> PollingDone

\* ---------------------------------------------------------------------
\* C29
\* ---------------------------------------------------------------------

\* C29: every ws.send of a fan-out is made when the request is already in
\* the map with its timer armed, and from then on the request of a caller
\* that is not settled yet is pending under its own id with that timer, so
\* a response arriving at any later point finds it.
RegisteredBeforeFanout ==
    /\ \A i \in DOMAIN sendCalls : sendCalls[i].registered
    /\ \A h \in DOMAIN timers :
          futures[timers[h].caller] = Unsettled =>
              /\ timers[h].requestId \in DOMAIN pendingRequests
              /\ pendingRequests[timers[h].requestId].caller = timers[h].caller
              /\ pendingRequests[timers[h].requestId].timeout = h
              /\ timers[h].state = "armed"

\* a worker has just been sent a request that is pending with its timer armed
FanoutOfPendingRequest ==
    \E i \in DOMAIN sendCalls :
        /\ ~sendCalls[i].threw
        /\ sendCalls[i].registered
        /\ sendCalls[i].message.requestId \in DOMAIN pendingRequests
        /\ timers[pendingRequests[sendCalls[i].message.requestId].timeout].state = "armed"
        /\ futures[pendingRequests[sendCalls[i].message.requestId].caller] = Unsettled

(* ---------- extension: a request from its receipt to its response -------- *)

\* the step of the clock the bridge and the extension share
RequestTickMs == 60000

\* how long the extension is followed: past the 120 s of the stored id
Horizon == 3 * RequestTickMs

\* part_003 lines 388-390 and contentScript.ts lines 220-226: the two items
StoredId(requestId, timestamp) ==
    [t |-> "item", requestId |-> requestId, timestamp |-> timestamp]

\* savedBy is not in the item: it tells the saves apart, by the request whose
\* page made them
StoredRequest(prompt, timestamp, savedBy) ==
    [t |-> "item", prompt |-> prompt, timestamp |-> timestamp, savedBy |-> savedBy]

\* what the automation in the page hands back: images, or an error
AutomationResults ==
    { [success |-> TRUE, imageUrls |-> <<"data:image/png;base64,AAAA">>,
       error |-> JsUndefined],
      [success |-> FALSE, imageUrls |-> <<>>, error |-> JsString("worker failed")] }

\* part_003 lines 430-444 with 484-490, and lines 618-637: the imageResponse
\* made of a result, for the request id given
ResponseFrame(requestId, result) ==
    IF result.success /\ Len(result.imageUrls) > 0
    THEN [type |-> "imageResponse", requestId |-> requestId, success |-> TRUE,
          imageData |-> JsArray(result.imageUrls), error |-> JsUndefined]
    ELSE [type |-> "imageResponse", requestId |-> requestId, success |-> FALSE,
          imageData |-> JsUndefined,
          error |-> OrElse(result.error, JsString("Unknown error from content script"))]

\* ws.send on the open socket: the frame leaves and websocket.message of the
\* server runs on it
wsSend(frame) ==
    /\ currentWs # 0
    /\ sockets[currentWs] = "OPEN"
    /\ wsSent' = Append(wsSent, frame)
    /\ onWebsocketMessage(JSONStringify(frame))
    /\ UNCHANGED <<IMAGE_REQUEST_TIMEOUT, storageVars, connVars, retryVars, pollVars,
                   pageVars, waitVars>>

\* a step of the extension that sends nothing
sendsNothing ==
    UNCHANGED <<wsSent, serverVars, storageVars, connVars, retryVars, pollVars,
                pageVars, waitVars>>

Automating(id) == id \in DOMAIN captureFrames /\ captureFrames[id].pc = "automating"

\* part_003 lines 330-352 and 376-421: ws.onmessage hands a requestImage
\* message to captureAndSendImage, which stores the id with the time and
\* sends the automation request to the tab it opened
captureAndSendImage(i) ==
    /\ i \in DOMAIN sendCalls
    /\ ~sendCalls[i].threw
    /\ sendCalls[i].message.type = "requestImage"
    /\ LET data == sendCalls[i].message
       IN  /\ data.requestId \notin DOMAIN captureFrames
           /\ chromeStorage' = [chromeStorage EXCEPT !.grokImaginePendingRequestId =
                                   StoredId(data.requestId, now)]
           /\ captureFrames' = (data.requestId :>
                                   [pc |-> "automating", prompt |-> data.prompt,
                                    tab |-> "open", reloaded |-> FALSE,
                                    pendingRequest |-> NoItem,
                                    result |-> JsUndefined])
                               @@ captureFrames
    /\ UNCHANGED now
    /\ sendsNothing

\* contentScript.ts lines 163-166 and part_003 lines 423-444, 446-490: the
\* page needs no reload, the tab answers; the background script removes the
\* stored id and sends the response
respondsDirectly(id, result) ==
    /\ Automating(id)
    /\ chromeStorage' = [chromeStorage EXCEPT !.grokImaginePendingRequestId = NoItem]
    /\ captureFrames' = [captureFrames EXCEPT ![id].pc = "done", ![id].tab = "closed"]
    /\ wsSend(ResponseFrame(id, result))
    /\ UNCHANGED now

\* contentScript.ts lines 118-153 and part_003 lines 446-462: the ratio has
\* to change; the content script saves the request and reloads the page,
\* sendMessage fails with "message channel closed" and captureAndSendImage
\* returns without a response
reloadsPage(id) ==
    /\ Automating(id)
    /\ chromeStorage' = [chromeStorage EXCEPT !.grokImaginePendingRequest =
                            StoredRequest(captureFrames[id].prompt, now, id)]
    /\ captureFrames' = [captureFrames EXCEPT ![id].pc = "reloading",
                                              ![id].reloaded = TRUE]
    /\ UNCHANGED now
    /\ sendsNothing

\* contentScript.ts lines 243-244
IsStaleRequest(age) == age > 60000

\* contentScript.ts lines 233-236: chrome.storage.local.get leaves the item
\* where it is
ItemAfterGet(item) == item

\* contentScript.ts lines 231-236, in the page loaded by the reload: the
\* call made when the script loads, up to the item it awaits from storage
readsPendingRequest(id) ==
    /\ id \in DOMAIN captureFrames
    /\ captureFrames[id].pc = "reloading"
    /\ captureFrames' = [captureFrames EXCEPT
                            ![id].pc = "checking",
                            ![id].pendingRequest = chromeStorage.grokImaginePendingRequest]
    /\ chromeStorage' = [chromeStorage EXCEPT
                            !.grokImaginePendingRequest = ItemAfterGet(@)]
    /\ UNCHANGED now
    /\ sendsNothing

\* contentScript.ts lines 238-257: with the item it has read, the script
\* returns, or removes the item and returns, or removes it and goes on to
\* the automation
checkAndResumePendingRequest(id) ==
    /\ id \in DOMAIN captureFrames
    /\ captureFrames[id].pc = "checking"
    /\ LET pendingRequest == captureFrames[id].pendingRequest
       IN  IF pendingRequest = NoItem
           THEN /\ captureFrames' = [captureFrames EXCEPT ![id].pc = "done"]
                /\ UNCHANGED chromeStorage
           ELSE /\ chromeStorage' = [chromeStorage EXCEPT
                                       !.grokImaginePendingRequest = NoItem]
                /\ captureFrames' =
                      IF IsStaleRequest(now - pendingRequest.timestamp)
                      THEN [captureFrames EXCEPT ![id].pc = "done",
                                                 ![id].pendingRequest = NoItem]
                      ELSE [captureFrames EXCEPT ![id].pc = "resumed"]
    /\ UNCHANGED now
    /\ sendsNothing

\* contentScript.ts lines 259-272: the resumed automation has ended and the
\* content script sends pendingRequestComplete with its result; its own
\* frame, with the item it had read, is gone
pendingRequestComplete(id, result) ==
    /\ id \in DOMAIN captureFrames
    /\ captureFrames[id].pc = "resumed"
    /\ captureFrames' = [captureFrames EXCEPT ![id].pc = "completed",
                                              ![id].pendingRequest = NoItem,
                                              ![id].result = result]
    /\ UNCHANGED <<now, chromeStorage>>
    /\ sendsNothing

\* part_003 lines 592-593
IsStaleId(age) == age > 120000

\* part_003 lines 584-615: the sender's tab is removed only past both early
\* returns, the one for a missing item and the one for a stale item
TabAfterComplete(tab, pendingData) ==
    IF pendingData = NoItem \/ IsStaleId(now - pendingData.timestamp)
    THEN tab ELSE "closed"

\* part_003 lines 565-567 and 573-644
handlePendingRequestComplete(id) ==
    LET pendingData == chromeStorage.grokImaginePendingRequestId
    IN  /\ id \in DOMAIN captureFrames
        /\ captureFrames[id].pc = "completed"
        /\ captureFrames' = [captureFrames EXCEPT
                                ![id].pc = "done",
                                ![id].result = JsUndefined,
                                ![id].tab = TabAfterComplete(@, pendingData)]
        /\ UNCHANGED now
        /\ IF pendingData = NoItem
           THEN UNCHANGED chromeStorage /\ sendsNothing
           ELSE /\ chromeStorage' = [chromeStorage EXCEPT
                                       !.grokImaginePendingRequestId = NoItem]
                /\ IF IsStaleId(now - pendingData.timestamp)
                   THEN sendsNothing
                   ELSE wsSend(ResponseFrame(pendingData.requestId,
                                             captureFrames[id].result))

\* RequestTickMs milliseconds pass for the server's timers and the extension's
\* clock alike; a timer that is due runs first
timePasses ==
    /\ now < Horizon
    /\ \A h \in DOMAIN timers : ~(timers[h].state = "armed" /\ timers[h].remaining = 0)
    /\ now' = now + RequestTickMs
    /\ timers' = Elapsed(timers, RequestTickMs)
    /\ discarded' = {}
    /\ sendCalls' = <<>>
    /\ wsLog' = <<>>
    /\ UNCHANGED <<wsConnections, clients, handlers, pendingRequests, REQUEST_TIMEOUT,
                   uuids, futures, settleCalls, firstEvent>>
    /\ UNCHANGED <<chromeStorage, captureFrames, wsSent>>
    /\ UNCHANGED <<IMAGE_REQUEST_TIMEOUT, storageVars, connVars, retryVars, pollVars,
                   pageVars, waitVars>>

\* the server has started with the default timeout; the extension is
\* loaded and its socket has opened
RequestInit ==
    /\ ServerInit({JsUndefined})
    /\ StorageIdle
    /\ sockets = [s \in 1..MaxSockets |-> IF s = 1 THEN "OPEN" ELSE "none"]
    /\ currentWs = 1
    /\ wsStatus = "connected"
    /\ reconnectTimers = <<>>
    /\ keepaliveAlarm = TRUE
    /\ serverReachable = TRUE
    /\ RetryIdle
    /\ PollIdle
    /\ NoRequests

RequestNext ==
    \/ \E ws \in ToolConns : addWebSocketConnection(ws)
    \/ \E p \in Prompts, f \in FolderPaths, a \in AspectRatios :
          generate_image(p, f, a, {})
    \/ \E h \in DOMAIN timers : TimeoutFire(h)
    \/ timePasses
    \/ \E i \in DOMAIN sendCalls : captureAndSendImage(i)
    \/ \E id \in DOMAIN captureFrames, result \in AutomationResults :
          respondsDirectly(id, result)
    \/ \E id \in DOMAIN captureFrames : reloadsPage(id)
    \/ \E id \in DOMAIN captureFrames : readsPendingRequest(id)
    \/ \E id \in DOMAIN captureFrames : checkAndResumePendingRequest(id)
    \/ \E id \in DOMAIN captureFrames, result \in AutomationResults :
          pendingRequestComplete(id, result)
    \/ \E id \in DOMAIN captureFrames : handlePendingRequestComplete(id)

RequestSpec == RequestInit /\ [][RequestNext]_vars

\* ---------------------------------------------------------------------
\* C30
\* ---------------------------------------------------------------------

\* the frame the step has sent, if it has sent one
SentNow == Len(wsSent') > Len(wsSent)

LastSent == wsSent[Len(wsSent)]

\* the request with this id has been timed out by the registry
TimedOut(id) ==
    \E h \in DOMAIN timers : timers[h].requestId = id /\ timers[h].state = "fired"

\* C30: a response the worker sends for a request the registry has timed
\* out, directly or after a page reload, is discarded: the map, the timers
\* and every caller's outcome stay as they were, and the caller of that
\* request keeps the timeout failure it was given. After a reload the worker
\* resumes a saved request no older than 60 s and sends the response for an
\* id stored no longer than 120 s ago.
LateResponseDiscarded ==
    [][/\ \A c \in DOMAIN captureFrames :
             captureFrames[c].pc = "checking" /\ captureFrames'[c].pc = "resumed" =>
                 now - captureFrames[c].pendingRequest.timestamp <= 60000
       /\ SentNow =>
            LET frame == wsSent'[Len(wsSent')]
                id    == frame.requestId
            IN  /\ \A c \in DOMAIN captureFrames :
                       captureFrames[c].pc = "completed" /\ captureFrames'[c].pc = "done" =>
                           /\ id = chromeStorage.grokImaginePendingRequestId.requestId
                           /\ now - chromeStorage.grokImaginePendingRequestId.timestamp <= 120000
                /\ TimedOut(id) =>
                       /\ discarded' = {id}
                       /\ UNCHANGED <<pendingRequests, timers, futures, settleCalls>>
                       /\ \A h \in DOMAIN timers :
                              timers[h].requestId = id =>
                                  futures'[timers[h].caller] = TimeoutError(REQUEST_TIMEOUT)]_vars

\* the response of a request resumed after a reload has just been sent, more
\* than 60 s after the request was received, and was discarded: the registry
\* had timed the request out and its caller has the timeout failure
ResumedResponseAfterTimeout ==
    /\ wsSent # <<>>
    /\ discarded = {LastSent.requestId}
    /\ wsLog = <<"Received message type">>
    /\ LastSent.requestId \in DOMAIN captureFrames
    /\ captureFrames[LastSent.requestId].pc = "done"
    /\ captureFrames[LastSent.requestId].reloaded
    /\ LastSent.success
    /\ now > 60000
    /\ \E h \in DOMAIN timers :
          /\ timers[h].requestId = LastSent.requestId
          /\ timers[h].state = "fired"
          /\ futures[timers[h].caller] = TimeoutError(REQUEST_TIMEOUT)

\* ---------------------------------------------------------------------
\* C31
\* ---------------------------------------------------------------------

\* C31: over everything the worker has sent, no two imageResponse frames
\* carry the same requestId, and every frame carries the id of a
\* requestImage message the worker received.
AtMostOneResponsePerRequest ==
    /\ \A i, j \in DOMAIN wsSent :
          wsSent[i].requestId = wsSent[j].requestId => i = j
    /\ \A i \in DOMAIN wsSent :
          /\ wsSent[i].type = "imageResponse"
          /\ wsSent[i].requestId \in DOMAIN captureFrames

\* ---------------------------------------------------------------------
\* C32
\* ---------------------------------------------------------------------

\* C32: the frame handlePendingRequestComplete sends when the resumed
\* automation of request c has completed is the response made of that
\* automation's result with requestId c, whatever other requests the worker
\* has received in the meantime.
ResumedResponseCarriesOwnId ==
    [][\A c \in DOMAIN captureFrames :
          (captureFrames[c].pc = "completed" /\ captureFrames'[c].pc = "done" /\ SentNow) =>
              wsSent'[Len(wsSent')] = ResponseFrame(c, captureFrames[c].result)]_vars

\* ---------------------------------------------------------------------
\* C33
\* ---------------------------------------------------------------------

\* the sockets of the worker that are open or being opened
OpenOrConnecting == {s \in 1..MaxSockets : sockets[s] \in {"CONNECTING", "OPEN"}}

\* C33: wsStatus is "connected" exactly when the socket ws refers to is
\* open, and at most one socket of the worker is open or connecting.
StatusMatchesSocket ==
    /\ (wsStatus = "connected") <=> (currentWs # 0 /\ sockets[currentWs] = "OPEN")
    /\ Cardinality(OpenOrConnecting) <= 1

\* the extension runs on: a tab answers or reloads, a reloaded page runs
\* its check, a resumed automation ends, a message sent is handled
RequestFairSpec ==
    /\ RequestSpec
    /\ \A id \in RequestIds :
          /\ WF_vars(reloadsPage(id)
                     \/ \E result \in AutomationResults : respondsDirectly(id, result))
          /\ WF_vars(readsPendingRequest(id))
          /\ WF_vars(checkAndResumePendingRequest(id))
          /\ WF_vars(\E result \in AutomationResults : pendingRequestComplete(id, result))
          /\ WF_vars(handlePendingRequestComplete(id))

\* ---------------------------------------------------------------------
\* C34
\* ---------------------------------------------------------------------

\* C34: a tab opened for a request is closed at some later point, whichever
\* way the request goes.
TabsEventuallyClosed ==
    \A id \in RequestIds :
        (id \in DOMAIN captureFrames /\ captureFrames[id].tab = "open")
            ~> (id \in DOMAIN captureFrames /\ captureFrames[id].tab = "closed")

\* ---------------------------------------------------------------------
\* C35
\* ---------------------------------------------------------------------

\* the page of request c goes on to the automation in this step
Resumes(c) == captureFrames[c].pc = "checking" /\ captureFrames'[c].pc = "resumed"

\* C35: when a page goes on to the automation of a saved request, the
\* request is out of storage, it is at most 60 s old, and no other page is
\* running the same saved request; a page that finds a saved request
\* older than that removes it and ends, and sends no completion message.
SavedRequestRunsAtMostOnce ==
    [][\A c \in DOMAIN captureFrames :
          LET item == captureFrames[c].pendingRequest
          IN  /\ Resumes(c) =>
                    /\ chromeStorage'.grokImaginePendingRequest # item
                    /\ now - item.timestamp <= 60000
                    /\ \A d \in DOMAIN captureFrames \ {c} :
                          ~ /\ captureFrames[d].pc = "resumed"
                            /\ captureFrames[d].pendingRequest = item
              /\ (/\ captureFrames[c].pc = "checking"
                  /\ captureFrames'[c] # captureFrames[c]
                  /\ item # NoItem
                  /\ now - item.timestamp > 60000) =>
                    /\ captureFrames'[c].pc = "done"
                    /\ chromeStorage'.grokImaginePendingRequest = NoItem
                    /\ UNCHANGED wsSent]_vars

(* ------- content script: handleGrokAutomationRequest in a page -------- *)

\* number of automateGrokImagine messages followed, each to the page of the
\* tab opened for it
MaxMessages == 2

\* the aspectRatio of a message: absent, a value of the enum, or another string
RatioArgs == {JsUndefined, JsString("1:1"), JsString("16:9"), JsString("4:3")}

\* contentScript.ts lines 463-481
parseAspectRatio(aspectRatio) ==
    CASE aspectRatio = "2:3"  -> <<2, 3>>
      [] aspectRatio = "3:2"  -> <<3, 2>>
      [] aspectRatio = "1:1"  -> <<1, 1>>
      [] aspectRatio = "9:16" -> <<9, 16>>
      [] aspectRatio = "16:9" -> <<16, 9>>
      [] OTHER                -> <<1, 1>>

\* contentScript.ts lines 14-19: the parsed item, by its state.aspectRatio;
\* JsUndefined stands for a state without an array in aspectRatio
ImagineModeStore(aspectRatio) == [t |-> "store", aspectRatio |-> aspectRatio]

\* what localStorage can hold under useImagineModeStore when a message arrives
StoredSettings ==
    {JsNull, ImagineModeStore(JsUndefined),
     ImagineModeStore(<<1, 1>>), ImagineModeStore(<<16, 9>>)}

\* contentScript.ts lines 170-192: null for a missing item and for one
\* without an aspectRatio array
getCurrentAspectRatio(storage) ==
    LET stored == storage.useImagineModeStore
    IN  IF stored = JsNull THEN JsNull
        ELSE IF stored.aspectRatio = JsUndefined THEN JsNull
        ELSE stored.aspectRatio

\* contentScript.ts lines 195-213: the storage after the call and what the
\* call returns; setItem throws when the storage refuses the write
setAspectRatioInLocalStorage(storage, aspectRatio, refused) ==
    IF storage.useImagineModeStore = JsNull \/ refused
    THEN [storage |-> storage, updated |-> FALSE]
    ELSE [storage |-> [storage EXCEPT !.useImagineModeStore =
                                        ImagineModeStore(aspectRatio)],
          updated |-> TRUE]

\* variant: the ratios are never found to differ
needsUpdateNever(currentAspectRatio, targetAspectRatio) == FALSE

\* contentScript.ts lines 116-120
needsUpdate(currentAspectRatio, targetAspectRatio) ==
    currentAspectRatio # targetAspectRatio

\* contentScript.ts lines 31-37: what sendResponse is called with when the
\* handler throws
ErrorResponse(message) ==
    [success |-> FALSE, imageUrls |-> <<>>, error |-> JsString(message)]

\* the message has no answer
NoResponse == [t |-> "none"]

Frame(pc, prompt, aspectRatio, response) ==
    [pc |-> pc, prompt |-> prompt, aspectRatio |-> aspectRatio,
     submitted |-> FALSE, response |-> response]

\* a step of the content script that sends nothing to the server
sendsNothingFromPage ==
    UNCHANGED <<wsSent, serverVars, storageVars, connVars, retryVars, pollVars, waitVars>>

\* contentScript.ts lines 97-166, up to the first await: the call ends with
\* an error that the listener answers with, or waits for savePendingRequest,
\* or has called handleGrokAutomation
handleGrokAutomationRequest(prompt, aspectRatio, refused) ==
    LET currentAspectRatio == getCurrentAspectRatio(localStorage)
        targetAspectRatio == parseAspectRatio(aspectRatio.s)
        written == setAspectRatioInLocalStorage(localStorage, targetAspectRatio, refused)
        verifyAspectRatio == getCurrentAspectRatio(written.storage)
        started(pc, response) ==
            automationFrames' =
                Append(automationFrames, Frame(pc, prompt, aspectRatio, response))
    IN  /\ Len(automationFrames) < MaxMessages
        /\ \A m \in DOMAIN automationFrames :
              automationFrames[m].pc \in {"reloaded", "answered"}
        /\ IF ~Truthy(aspectRatio)
           THEN started("automating", NoResponse) /\ UNCHANGED localStorage
           ELSE IF currentAspectRatio = JsNull
           THEN /\ started("answered", ErrorResponse("localStorage 'useImagineModeStore' not found. Please visit grok.com/imagine manually first to initialize settings, then try again."))
                /\ UNCHANGED localStorage
           ELSE IF ~needsUpdate(currentAspectRatio, targetAspectRatio)
           THEN started("automating", NoResponse) /\ UNCHANGED localStorage
           ELSE /\ localStorage' = written.storage
                /\ IF ~written.updated
                   THEN started("answered", ErrorResponse("Failed to update aspect ratio in localStorage. Please try again."))
                   ELSE IF verifyAspectRatio # targetAspectRatio
                   THEN started("answered", ErrorResponse("Failed to verify aspect ratio update in localStorage. Please try again."))
                   ELSE started("saving", NoResponse)
        /\ UNCHANGED <<serverVars, storageVars, connVars, retryVars, pollVars,
                       requestVars, waitVars>>

\* contentScript.ts lines 150 and 215-228: chrome.storage.local.set has
\* written the item
savePendingRequest(m) ==
    /\ m \in DOMAIN automationFrames
    /\ automationFrames[m].pc = "saving"
    /\ chromeStorage' = [chromeStorage EXCEPT !.grokImaginePendingRequest =
                            StoredRequest(automationFrames[m].prompt, now, m)]
    /\ automationFrames' = [automationFrames EXCEPT ![m].pc = "saved"]
    /\ UNCHANGED <<now, captureFrames, localStorage>>
    /\ sendsNothingFromPage

\* contentScript.ts lines 152-157: location.reload() ends the page the
\* message was sent to; the promise returned is never settled
locationReload(m) ==
    /\ m \in DOMAIN automationFrames
    /\ automationFrames[m].pc = "saved"
    /\ automationFrames' = [automationFrames EXCEPT ![m].pc = "reloaded"]
    /\ UNCHANGED <<now, chromeStorage, captureFrames, localStorage>>
    /\ sendsNothingFromPage

\* contentScript.ts lines 292-333: handleGrokAutomation types the prompt
\* and submits it
submitsPrompt(m) ==
    /\ m \in DOMAIN automationFrames
    /\ automationFrames[m].pc = "automating"
    /\ ~automationFrames[m].submitted
    /\ automationFrames' = [automationFrames EXCEPT ![m].submitted = TRUE]
    /\ UNCHANGED <<now, chromeStorage, captureFrames, localStorage>>
    /\ sendsNothingFromPage

\* contentScript.ts lines 31-37: the promise of the handler has settled and
\* the listener calls sendResponse
sendResponse(m, result) ==
    /\ m \in DOMAIN automationFrames
    /\ automationFrames[m].pc = "automating"
    /\ automationFrames[m].submitted \/ ~result.success
    /\ automationFrames' = [automationFrames EXCEPT ![m].pc = "answered",
                                                    ![m].response = result]
    /\ UNCHANGED <<now, chromeStorage, captureFrames, localStorage>>
    /\ sendsNothingFromPage

\* the page's settings are whatever the user left there; no message has
\* arrived
PageInit ==
    /\ ServerInit({JsUndefined})
    /\ StorageIdle
    /\ WorkerLoaded
    /\ keepaliveAlarm = FALSE
    /\ serverReachable = TRUE
    /\ RetryIdle
    /\ PollIdle
    /\ RequestsIdle
    /\ localStorage \in [useImagineModeStore : StoredSettings]
    /\ automationFrames = <<>>
    /\ WaitIdle

PageNext ==
    \/ \E prompt \in Prompts, aspectRatio \in RatioArgs, refused \in BOOLEAN :
          handleGrokAutomationRequest(prompt, aspectRatio, refused)
    \/ \E m \in DOMAIN automationFrames : savePendingRequest(m)
    \/ \E m \in DOMAIN automationFrames : locationReload(m)
    \/ \E m \in DOMAIN automationFrames : submitsPrompt(m)
    \/ \E m \in DOMAIN automationFrames, result \in AutomationResults :
          sendResponse(m, result)

PageSpec == PageInit /\ [][PageNext]_vars

\* ---------------------------------------------------------------------
\* C36
\* ---------------------------------------------------------------------

\* the message of the frame asks for a ratio, the storage holds one, and
\* whether the two differ is as given
RatiosCompare(frame, storage, differ) ==
    /\ Truthy(frame.aspectRatio)
    /\ getCurrentAspectRatio(storage) # JsNull
    /\ (getCurrentAspectRatio(storage) # parseAspectRatio(frame.aspectRatio.s)) = differ

\* the step in which the message of frame m arrives
Arrives(m) == m \notin DOMAIN automationFrames /\ m \in DOMAIN automationFrames'

\* frame m has taken the reload path
OnReloadPath(m) == automationFrames[m].pc \in {"saving", "saved", "reloaded"}

\* C36: a message whose ratio differs from the page's, once the new ratio
\* is written, leaves the handler waiting for the save with the ratio in
\* localStorage updated; the page reloads only with the ratio updated and
\* the request in chrome.storage; on that path the prompt is never
\* submitted and the message never answered. A message whose ratio equals
\* the page's starts the automation at once, and its frame neither saves a
\* request nor reloads.
ReloadOnlyForNewRatio ==
    [][\A m \in 1..MaxMessages :
          /\ (Arrives(m) /\ RatiosCompare(automationFrames'[m], localStorage, TRUE)
                /\ automationFrames'[m].response = NoResponse) =>
                /\ automationFrames'[m].pc = "saving"
                /\ getCurrentAspectRatio(localStorage') =
                      parseAspectRatio(automationFrames'[m].aspectRatio.s)
                /\ UNCHANGED chromeStorage
          /\ (Arrives(m) /\ RatiosCompare(automationFrames'[m], localStorage, FALSE)) =>
                /\ automationFrames'[m].pc = "automating"
                /\ UNCHANGED <<localStorage, chromeStorage>>
          /\ (m \in DOMAIN automationFrames /\ automationFrames[m].pc # "reloaded"
                /\ automationFrames'[m].pc = "reloaded") =>
                /\ getCurrentAspectRatio(localStorage) =
                      parseAspectRatio(automationFrames[m].aspectRatio.s)
                /\ chromeStorage.grokImaginePendingRequest =
                      StoredRequest(automationFrames[m].prompt, now, m)
          /\ (m \in DOMAIN automationFrames /\ OnReloadPath(m)) =>
                /\ OnReloadPath(m)'
                /\ ~automationFrames'[m].submitted
                /\ automationFrames'[m].response = NoResponse
          /\ (m \in DOMAIN automationFrames /\ ~OnReloadPath(m)) =>
                /\ ~OnReloadPath(m)'
                /\ automationFrames'[m] # automationFrames[m] => UNCHANGED chromeStorage
      ]_vars

\* a page has reloaded for one message, and the next message, for the
\* ratio now stored, has been answered with an image
ReloadedThenAnsweredDirectly ==
    /\ Len(automationFrames) = 2
    /\ automationFrames[1].pc = "reloaded"
    /\ automationFrames[2].pc = "answered"
    /\ automationFrames[2].aspectRatio = automationFrames[1].aspectRatio
    /\ automationFrames[2].response.success

(* ----------------- background script: waitForTabComplete -------------- *)

\* number of calls of waitForTabComplete followed
MaxWaits == 2

\* the clock of the tab timeouts advances in steps of this many milliseconds
WaitTickMs == 15000

\* changeInfo.status of a chrome.tabs.onUpdated event; JsUndefined for an
\* update of something else than the status
TabChanges == {JsString("loading"), JsString("complete"), JsUndefined}

\* part_003 lines 496-499: the timer the call arms
TabLoadTimeout == [state |-> "armed", remaining |-> 30000]

\* variant: the listener leaves the timer armed
timeoutLeftArmed(timeout) == timeout

\* part_003 line 507: clearTimeout(timeout)
timeoutCleared(timeout) == [timeout EXCEPT !.state = "cleared"]

\* the promise after a call of resolve or reject: the first call settles it
settledBy(frame, outcome) ==
    IF frame.promise = "pending" THEN outcome ELSE frame.promise

\* part_003 lines 494-513: the executor arms the timeout and adds the listener
waitForTabComplete(tabId) ==
    /\ Len(waitFrames) < MaxWaits
    /\ waitFrames' = Append(waitFrames,
                            [tabId |-> tabId, timeout |-> TabLoadTimeout,
                             listener |-> TRUE, resolveCalls |-> 0,
                             rejectCalls |-> 0, promise |-> "pending"])
    /\ UNCHANGED tabStatus
    /\ UNCHANGED <<serverVars, storageVars, connVars, retryVars, pollVars,
                   requestVars, pageVars>>

\* part_003 lines 501-510: the listener of a call, run on an event
listener(frame, updatedTabId, change) ==
    IF updatedTabId = frame.tabId /\ change = JsString("complete")
    THEN [frame EXCEPT !.timeout = timeoutCleared(@),
                       !.listener = FALSE,
                       !.resolveCalls = @ + 1,
                       !.promise = settledBy(frame, "resolved")]
    ELSE frame

\* chrome.tabs.onUpdated fires for a tab: the listeners added and not
\* removed run on the event
tabsOnUpdated(updatedTabId, change) ==
    /\ change # JsUndefined => change.s # tabStatus[updatedTabId]
    /\ tabStatus' = IF change = JsUndefined THEN tabStatus
                    ELSE [tabStatus EXCEPT ![updatedTabId] = change.s]
    /\ waitFrames' = [w \in DOMAIN waitFrames |->
                         IF waitFrames[w].listener
                         THEN listener(waitFrames[w], updatedTabId, change)
                         ELSE waitFrames[w]]
    /\ UNCHANGED <<serverVars, storageVars, connVars, retryVars, pollVars,
                   requestVars, pageVars>>

\* part_003 lines 496-499: the callback of the timeout
tabLoadTimeout(w) ==
    /\ w \in DOMAIN waitFrames
    /\ waitFrames[w].timeout = [state |-> "armed", remaining |-> 0]
    /\ waitFrames' = [waitFrames EXCEPT
                         ![w].timeout.state = "fired",
                         ![w].listener = FALSE,
                         ![w].rejectCalls = @ + 1,
                         ![w].promise = settledBy(waitFrames[w], "rejected")]
    /\ UNCHANGED tabStatus
    /\ UNCHANGED <<serverVars, storageVars, connVars, retryVars, pollVars,
                   requestVars, pageVars>>

\* WaitTickMs milliseconds pass; a timeout that is due runs first
waitTimePasses ==
    /\ \E w \in DOMAIN waitFrames : waitFrames[w].timeout.state = "armed"
    /\ \A w \in DOMAIN waitFrames :
          waitFrames[w].timeout.state = "armed" => waitFrames[w].timeout.remaining > 0
    /\ waitFrames' = [w \in DOMAIN waitFrames |->
                         IF waitFrames[w].timeout.state = "armed"
                         THEN [waitFrames[w] EXCEPT !.timeout.remaining =
                                  IF @ > WaitTickMs THEN @ - WaitTickMs ELSE 0]
                         ELSE waitFrames[w]]
    /\ UNCHANGED tabStatus
    /\ UNCHANGED <<serverVars, storageVars, connVars, retryVars, pollVars,
                   requestVars, pageVars>>

\* the tabs are open, loading or loaded, and nothing waits for them yet
WaitInit ==
    /\ ServerInit({JsUndefined})
    /\ StorageIdle
    /\ WorkerLoaded
    /\ keepaliveAlarm = FALSE
    /\ serverReachable = TRUE
    /\ RetryIdle
    /\ PollIdle
    /\ RequestsIdle
    /\ PagesIdle
    /\ tabStatus \in [TabIds -> {"loading", "complete"}]
    /\ waitFrames = <<>>

WaitNext ==
    \/ \E tabId \in TabIds : waitForTabComplete(tabId)
    \/ \E updatedTabId \in TabIds, change \in TabChanges :
          tabsOnUpdated(updatedTabId, change)
    \/ \E w \in DOMAIN waitFrames : tabLoadTimeout(w)
    \/ waitTimePasses

\* time passes and due timers run
WaitSpec ==
    /\ WaitInit
    /\ [][WaitNext]_vars
    /\ WF_vars(waitTimePasses)
    /\ \A w \in 1..MaxWaits : WF_vars(tabLoadTimeout(w))

\* ---------------------------------------------------------------------
\* C37
\* ---------------------------------------------------------------------

\* the watched tab of the frame reports complete in this step
ReportsComplete(w) ==
    /\ tabStatus[waitFrames[w].tabId] # "complete"
    /\ tabStatus'[waitFrames[w].tabId] = "complete"

\* C37: resolve and reject are called at most once between them and every
\* call is settled in the end; a pending call resolves in the step in
\* which its tab reports complete, and rejects only with its 30 s run out;
\* once settled its listener is removed, and once resolved its timeout is
\* cleared and it is never rejected.
WaitSettlesExactlyOnce ==
    /\ [](\A w \in DOMAIN waitFrames :
            LET frame == waitFrames[w]
            IN  /\ frame.resolveCalls + frame.rejectCalls <= 1
                /\ frame.promise = "pending" <=>
                      frame.resolveCalls + frame.rejectCalls = 0
                /\ frame.promise = "resolved" <=> frame.resolveCalls = 1
                /\ frame.promise # "pending" => ~frame.listener
                /\ frame.promise = "resolved" => frame.timeout.state = "cleared"
                /\ frame.promise = "rejected" =>
                      frame.timeout = [state |-> "fired", remaining |-> 0])
    /\ [][\A w \in DOMAIN waitFrames :
            /\ (waitFrames[w].promise = "pending" /\ ReportsComplete(w)) =>
                  waitFrames'[w].promise = "resolved"
            /\ (waitFrames[w].promise = "pending"
                  /\ waitFrames'[w].promise = "resolved") => ReportsComplete(w)
            /\ waitFrames[w].promise # "pending" => waitFrames'[w] = waitFrames[w]
         ]_vars
    /\ \A w \in 1..MaxWaits :
          (w \in DOMAIN waitFrames) ~>
             (w \in DOMAIN waitFrames /\ waitFrames[w].promise # "pending")

\* one call has resolved and another, for a tab that never reported
\* complete while it waited, has been rejected by its timeout
ResolvedAndRejected ==
    \E v, w \in DOMAIN waitFrames :
        /\ waitFrames[v].promise = "resolved"
        /\ waitFrames[w].promise = "rejected"

====
